---- MODULE Spec2Model ----
(***************************************************************************)
(* Indicator and backtest engine of ETHDenver2025:                         *)
(*   - MeanReversionIndicators / TechnicalIndicators (numpy, pure)         *)
(*   - MeanReversionStrategy.calculate_metrics / backtest_strategy (pandas)*)
(*   - MACrossoverStrategy.calculate_signals / backtest (pandas)           *)
(*   - MeanReversionIndicators.calculate_average_true_range                *)
(*                                                                         *)
(* Arithmetic.  Every number the code computes is a Python/numpy float.    *)
(* It is modelled as a binary floating-point number with a significand of  *)
(* Precision bits, rounded to nearest (ties to even) after every           *)
(* operation, with the IEEE special values inf and nan.  float64 is the    *)
(* instance Precision = 53; the exponent is unbounded here (no overflow,   *)
(* no underflow, no signed zero).  Library reductions (np.mean, np.std,    *)
(* rolling(...).mean(), rolling(...).std()) are modelled as a left-to-right*)
(* float sum followed by one float division, which is what numpy does for  *)
(* fewer than 8 elements.                                                  *)
(***************************************************************************)
EXTENDS Integers, Sequences, FiniteSets, TLC

\* Significand width of the modelled floats (float64: 53).
Precision == 5

(***************************************************************************)
(* Floating point                                                          *)
(***************************************************************************)
Pow2(n) == IF n <= 0 THEN 1 ELSE 2 ^ n

Abs(n) == IF n < 0 THEN -n ELSE n

Sgn(n) == IF n < 0 THEN -1 ELSE IF n > 0 THEN 1 ELSE 0

\* Number of bits of n >= 0.
RECURSIVE BitLen(_)
BitLen(n) == IF n = 0 THEN 0 ELSE 1 + BitLen(n \div 2)

NaN == [k |-> "nan", m |-> 0, e |-> 0]

Inf(s) == [k |-> "inf", m |-> s, e |-> 0]

\* The finite float m * 2^e in canonical form (odd m, or zero).
RECURSIVE Canon(_, _)
Canon(m, e) ==
    IF m = 0 THEN [k |-> "fin", m |-> 0, e |-> 0]
    ELSE IF m % 2 = 0 THEN Canon(m \div 2, e + 1)
    ELSE [k |-> "fin", m |-> m, e |-> e]

\* n * 2^e rounded to Precision significant bits, ties to even.
Round(n, e) ==
    LET a == Abs(n)
        drop == BitLen(a) - Precision
    IN  IF drop <= 0 THEN Canon(n, e)
        ELSE LET unit == Pow2(drop)
                 q == a \div unit
                 r == a % unit
                 up == (2 * r > unit) \/ (2 * r = unit /\ q % 2 = 1)
                 qq == IF up THEN q + 1 ELSE q
             IN  Canon(Sgn(n) * qq, e + drop)

\* A Python int or an exactly written literal as a float.
F(n) == Round(n, 0)

IsFin(x) == x.k = "fin"
IsNaN(x) == x.k = "nan"
IsZero(x) == x.k = "fin" /\ x.m = 0

FNeg(x) == [x EXCEPT !.m = -x.m]

FAdd(x, y) ==
    IF IsNaN(x) \/ IsNaN(y) THEN NaN
    ELSE IF x.k = "inf" /\ y.k = "inf" THEN (IF x.m = y.m THEN x ELSE NaN)
    ELSE IF x.k = "inf" THEN x
    ELSE IF y.k = "inf" THEN y
    ELSE IF x.m = 0 THEN y
    ELSE IF y.m = 0 THEN x
    ELSE LET lo == IF x.e <= y.e THEN x ELSE y
             hi == IF x.e <= y.e THEN y ELSE x
             d == hi.e - lo.e
         IN  IF d > 2 * Precision + 2
             THEN hi    \* lo is below a quarter of an ulp of hi
             ELSE Round(hi.m * Pow2(d) + lo.m, lo.e)

FSub(x, y) == FAdd(x, FNeg(y))

FMul(x, y) ==
    IF IsNaN(x) \/ IsNaN(y) THEN NaN
    ELSE IF x.k = "inf" \/ y.k = "inf"
         THEN (IF x.m = 0 \/ y.m = 0 THEN NaN ELSE Inf(Sgn(x.m) * Sgn(y.m)))
    ELSE Round(x.m * y.m, x.e + y.e)

\* numpy/pandas semantics: x/0 is inf (or nan for 0/0), never an exception.
FDiv(x, y) ==
    IF IsNaN(x) \/ IsNaN(y) THEN NaN
    ELSE IF x.k = "inf" THEN (IF y.k = "inf" THEN NaN
                              ELSE Inf(x.m * (IF y.m < 0 THEN -1 ELSE 1)))
    ELSE IF y.k = "inf" THEN Canon(0, 0)
    ELSE IF y.m = 0 THEN (IF x.m = 0 THEN NaN ELSE Inf(Sgn(x.m)))
    ELSE IF x.m = 0 THEN Canon(0, 0)
    ELSE LET s == 2 * Precision + 2
             num == Abs(x.m) * Pow2(s)
             q == num \div Abs(y.m)
             sticky == IF num % Abs(y.m) = 0 THEN 0 ELSE 1
         IN  Round(Sgn(x.m) * Sgn(y.m) * (2 * q + sticky), x.e - y.e - s - 1)

\* floor(sqrt(n)) for 0 <= n.
RECURSIVE ISqrtFrom(_, _)
ISqrtFrom(n, r) == IF (r + 1) * (r + 1) > n THEN r ELSE ISqrtFrom(n, r + 1)

ISqrt(n) ==
    LET h == BitLen(n) \div 2
        r0 == IF h = 0 THEN 0 ELSE Pow2(h - 1)
    IN  ISqrtFrom(n, r0)

FSqrt(x) ==
    IF IsNaN(x) THEN NaN
    ELSE IF x.k = "inf" THEN (IF x.m > 0 THEN x ELSE NaN)
    ELSE IF x.m < 0 THEN NaN
    ELSE IF x.m = 0 THEN x
    ELSE LET want == 2 * Precision + 2
             t0 == IF BitLen(x.m) >= want THEN 0 ELSE want - BitLen(x.m)
             t == IF (x.e - t0) % 2 = 0 THEN t0 ELSE t0 + 1
             n == x.m * Pow2(t)
             r == ISqrt(n)
             sticky == IF r * r = n THEN 0 ELSE 1
         IN  Round(2 * r + sticky, ((x.e - t) \div 2) - 1)

\* Exact comparison of two floats; every comparison with nan is false.
FLt(x, y) ==
    IF IsNaN(x) \/ IsNaN(y) THEN FALSE
    ELSE IF x.k = "inf" THEN x.m < 0 /\ ~(y.k = "inf" /\ y.m < 0)
    ELSE IF y.k = "inf" THEN y.m > 0
    ELSE IF Sgn(x.m) # Sgn(y.m) THEN Sgn(x.m) < Sgn(y.m)
    ELSE IF x.m = 0 THEN FALSE
    ELSE LET lx == BitLen(Abs(x.m)) + x.e
             ly == BitLen(Abs(y.m)) + y.e
         IN  IF lx # ly THEN (IF x.m > 0 THEN lx < ly ELSE lx > ly)
             ELSE IF x.e >= y.e THEN x.m * Pow2(x.e - y.e) < y.m
             ELSE x.m < y.m * Pow2(y.e - x.e)

FGt(x, y) == FLt(y, x)

FEq(x, y) == ~IsNaN(x) /\ ~IsNaN(y) /\ x = y

FLe(x, y) == FLt(x, y) \/ FEq(x, y)

FGe(x, y) == FLe(y, x)

FAbs(x) == [x EXCEPT !.m = Abs(x.m)]

FMax(x, y) == IF FLt(x, y) THEN y ELSE x

(***************************************************************************)
(* numpy helpers                                                           *)
(***************************************************************************)
\* a[-window:] of a Python list / numpy array (a[-0:] is the whole array,
\* a negative window drops the first -window elements).
LastWindow(a, window) ==
    LET n == Len(a)
        start == IF window > 0
                 THEN (IF window >= n THEN 1 ELSE n - window + 1)
                 ELSE (IF -window >= n THEN n + 1 ELSE -window + 1)
    IN  SubSeq(a, start, n)

\* np.add.reduce over fewer than 8 floats: res = 0.; res += a[i].
RECURSIVE np_sum_to(_, _)
np_sum_to(a, n) == IF n = 0 THEN F(0) ELSE FAdd(np_sum_to(a, n - 1), a[n])

np_sum(a) == np_sum_to(a, Len(a))

\* np.mean(a): sum / n (nan for an empty array).
np_mean(a) == FDiv(np_sum(a), F(Len(a)))

\* np.std(a, ddof): sqrt(sum((a - mean)^2) / (n - ddof)).
np_std_ddof(a, ddof) ==
    LET mu == np_mean(a)
        sq == [i \in 1..Len(a) |-> FMul(FSub(a[i], mu), FSub(a[i], mu))]
    IN  FSqrt(FDiv(np_sum(sq), F(Len(a) - ddof)))

\* np.std(a): the population standard deviation (ddof = 0).
np_std(a) == np_std_ddof(a, 0)

\* np.diff(a).
np_diff(a) == [i \in 1..(Len(a) - 1) |-> FSub(a[i + 1], a[i])]

(***************************************************************************)
(* MeanReversionIndicators (dexy/tools/mean_reversion/core/indicators.py); *)
(* TechnicalIndicators (Mean_Reversion/technical_indicators.py) has the    *)
(* same three bodies.                                                      *)
(***************************************************************************)
\* The outcome "raise ValueError(...)" of a function that returns a float.
ValueError == [k |-> "raise", m |-> 0, e |-> 0]

Raised(x) == x.k = "raise"

\* calculate_z_score that reports the size of the deviation without its
\* sign.
calculate_z_score_unsigned(prices, window) ==
    IF Len(prices) < window THEN ValueError
    ELSE LET w == LastWindow(prices, window)
             moving_avg == np_mean(w)
             std_dev == np_std(w)
         IN  IF FEq(std_dev, F(0)) THEN F(0)
             ELSE FAbs(FDiv(FSub(prices[Len(prices)], moving_avg), std_dev))

calculate_z_score(prices, window) ==
    IF Len(prices) < window THEN ValueError
    ELSE LET w == LastWindow(prices, window)
             moving_avg == np_mean(w)
             std_dev == np_std(w)
         IN  IF FEq(std_dev, F(0)) THEN F(0)
             ELSE FDiv(FSub(prices[Len(prices)], moving_avg), std_dev)

\* calculate_rsi without the avg_loss == 0 early return.
calculate_rsi_unguarded(prices, window) ==
    IF Len(prices) < window + 1 THEN ValueError
    ELSE LET deltas == np_diff(prices)
             gains == [i \in 1..Len(deltas) |->
                          IF FGt(deltas[i], F(0)) THEN deltas[i] ELSE F(0)]
             losses == [i \in 1..Len(deltas) |->
                          IF FLt(deltas[i], F(0)) THEN FNeg(deltas[i]) ELSE F(0)]
             avg_gain == np_mean(LastWindow(gains, window))
             avg_loss == np_mean(LastWindow(losses, window))
             rs == FDiv(avg_gain, avg_loss)
         IN  FSub(F(100), FDiv(F(100), FAdd(F(1), rs)))

calculate_rsi(prices, window) ==
    IF Len(prices) < window + 1 THEN ValueError
    ELSE LET deltas == np_diff(prices)
             gains == [i \in 1..Len(deltas) |->
                          IF FGt(deltas[i], F(0)) THEN deltas[i] ELSE F(0)]
             losses == [i \in 1..Len(deltas) |->
                          IF FLt(deltas[i], F(0)) THEN FNeg(deltas[i]) ELSE F(0)]
             avg_gain == np_mean(LastWindow(gains, window))
             avg_loss == np_mean(LastWindow(losses, window))
         IN  IF FEq(avg_loss, F(0)) THEN F(100)
             ELSE LET rs == FDiv(avg_gain, avg_loss)
                  IN  FSub(F(100), FDiv(F(100), FAdd(F(1), rs)))

\* [ok |-> FALSE] is "raise ValueError(...)".
calculate_bollinger_bands(prices, window, num_std) ==
    IF Len(prices) < window THEN [ok |-> FALSE]
    ELSE LET w == LastWindow(prices, window)
             moving_avg == np_mean(w)
             std_dev == np_std(w)
             upper_band == FAdd(moving_avg, FMul(std_dev, num_std))
             lower_band == FSub(moving_avg, FMul(std_dev, num_std))
             current_price == prices[Len(prices)]
             percent_b == IF ~FEq(upper_band, lower_band)
                          THEN FDiv(FSub(current_price, lower_band),
                                    FSub(upper_band, lower_band))
                          ELSE Round(1, -1)
         IN  [ok |-> TRUE,
              middle_band |-> moving_avg,
              upper_band |-> upper_band,
              lower_band |-> lower_band,
              current_price |-> current_price,
              percent_b |-> percent_b]

\* tools/mean_reversion/core/indicators.py: the true range of candle i
\* (1-based here) against the close of the candle before it.
true_range(ohlc_data, i) ==
    LET high == ohlc_data[i].high
        low == ohlc_data[i].low
        prev_close == ohlc_data[i - 1].close
        tr1 == FSub(high, low)
        tr2 == FAbs(FSub(high, prev_close))
        tr3 == FAbs(FSub(low, prev_close))
    IN  FMax(FMax(tr1, tr2), tr3)

\* for i in range(1, len(ohlc_data)): true_ranges.append(true_range)
true_ranges(ohlc_data) ==
    [j \in 1..(Len(ohlc_data) - 1) |-> true_range(ohlc_data, j + 1)]

\* calculate_average_true_range: the guard compares with window, not
\* window + 1.
calculate_average_true_range(ohlc_data, window) ==
    IF Len(ohlc_data) < window THEN ValueError
    ELSE np_mean(LastWindow(true_ranges(ohlc_data), window))

(***************************************************************************)
(* pandas helpers                                                          *)
(***************************************************************************)
\* col.iloc[i] (0-based; a negative i counts from the end).
iloc(col, i) == IF i >= 0 THEN col[i + 1] ELSE col[Len(col) + i + 1]

\* A Python int compared with floats: exact, never rounded.
Exact(n) == Canon(n, 0)

\* col.rolling(window).mean(): nan until `window` values are available.
rolling_mean(col, window) ==
    [j \in 1..Len(col) |->
        IF j < window THEN NaN ELSE np_mean(SubSeq(col, j - window + 1, j))]

\* col.rolling(window).std(): pandas' default ddof = 1 (sample deviation).
rolling_std(col, window) ==
    [j \in 1..Len(col) |->
        IF j < window THEN NaN
        ELSE np_std_ddof(SubSeq(col, j - window + 1, j), 1)]

\* col.diff(): nan in the first row.
pd_diff(col) ==
    [j \in 1..Len(col) |-> IF j = 1 THEN NaN ELSE FSub(col[j], col[j - 1])]

(***************************************************************************)
(* MeanReversionStrategy (Mean_Reversion/advanced_strategy.py)             *)
(***************************************************************************)
\* The RSI window of calculate_metrics, fixed whatever lookback_period is.
RsiWindow == 10

\* The number of standard deviations of the bands in calculate_metrics.
BandStd == 2

\* calculate_metrics: the dataframe as a sequence of rows (row j is iloc[j-1]).
calculate_metrics(prices, self) ==
    LET ma == rolling_mean(prices, self.lookback_period)
        std == rolling_std(prices, self.lookback_period)
        delta == pd_diff(prices)
        gain == [j \in 1..Len(prices) |->
                    IF FGt(delta[j], F(0)) THEN delta[j] ELSE F(0)]
        loss == [j \in 1..Len(prices) |->
                    FNeg(IF FLt(delta[j], F(0)) THEN delta[j] ELSE F(0))]
        avg_gain == rolling_mean(gain, RsiWindow)
        avg_loss == rolling_mean(loss, RsiWindow)
    IN  [j \in 1..Len(prices) |->
            LET z_score == FDiv(FSub(prices[j], ma[j]), std[j])
                rs == FDiv(avg_gain[j], avg_loss[j])
                rsi == FSub(F(100), FDiv(F(100), FAdd(F(1), rs)))
                upper_band == FAdd(ma[j], FMul(std[j], F(BandStd)))
                lower_band == FSub(ma[j], FMul(std[j], F(BandStd)))
                percent_b == FDiv(FSub(prices[j], lower_band),
                                  FSub(upper_band, lower_band))
            IN  [price |-> prices[j],
                 ma |-> ma[j],
                 std |-> std[j],
                 z_score |-> z_score,
                 rsi |-> rsi,
                 upper_band |-> upper_band,
                 lower_band |-> lower_band,
                 percent_b |-> percent_b,
                 buy_signal |-> \/ FLt(z_score, FNeg(Exact(self.z_threshold)))
                                \/ FLt(rsi, Exact(self.rsi_oversold))
                                \/ FLt(percent_b, F(0)),
                 sell_signal |-> \/ FGt(z_score, Exact(self.z_threshold))
                                 \/ FGt(rsi, Exact(self.rsi_overbought))
                                 \/ FGt(percent_b, F(1))]]

(***************************************************************************)
(* State                                                                   *)
(***************************************************************************)
VARIABLES
    pc,                 \* where the running call stands
    self,               \* the strategy object's fields
    historical_data,    \* the prices the price API returns, oldest first
    initial_capital,    \* argument of backtest_strategy / backtest
    df,                 \* the dataframe of the running backtest
    position,           \* local variable of backtest_strategy
    i,                  \* loop index of the running backtest (0-based)
    results             \* the dictionary the backtest returns

vars == <<pc, self, historical_data, initial_capital, df, position, i, results>>

NoResults == [returned |-> FALSE]

(***************************************************************************)
(* Inputs of the mean-reversion backtest                                   *)
(***************************************************************************)
\* Longest series over three price levels.
MaxDays == 7

\* Series over three price levels (shorter than RsiWindow: rsi stays nan).
ShortLevels == {2, 3, 4}

\* Series over two price levels, long enough for the RSI column to be defined.
LongLevels == {3, 4}

LongDays == RsiWindow + 1

\* All sequences of length n over the set S.
SeqsOfLen(S, n) == [1..n -> S]

\* Constructor arguments tried (the defaults are 10, 2.0, 70, 30).
StrategyParams ==
    {[lookback_period |-> 3, z_threshold |-> 1,
      rsi_overbought |-> 70, rsi_oversold |-> 30]}

InitialCapitals == {F(25)}

\* Two series of LongDays prices whose last day raises the buy and the sell
\* signal together: a run-up that dips (RSI above 70, Z-score below the
\* threshold) and a drop that recovers (RSI below 30, Z-score above it).
BothSignalSeries ==
    {<<1, 2, 3, 4, 4, 4, 4, 4, 4, 4, 3>>, <<4, 4, 4, 1, 1, 1, 1, 1, 1, 1, 2>>}

BacktestSeries(lookback) ==
    UNION {SeqsOfLen(ShortLevels, n) : n \in (lookback + 1)..MaxDays}
        \cup SeqsOfLen(LongLevels, LongDays)
        \cup BothSignalSeries

(***************************************************************************)
(* MeanReversionStrategy.backtest_strategy                                 *)
(***************************************************************************)
\* Buy with all capital: the holdings bought on day i.
buy_holdings(capital_prev, price) == FDiv(capital_prev, price)

\* Mutant: a 25% fee is taken from the proceeds of a sale.
sell_capital_with_fee(holdings_prev, price) ==
    FMul(FMul(holdings_prev, price), Round(3, -2))

\* Sell all holdings: the capital received on day i.
sell_capital(holdings_prev, price) == FMul(holdings_prev, price)

\* Mutant: the buy branch forgets to test that the position is flat.
takes_buy_any_position(pos, row) == row.buy_signal

\* Whether the loop body takes the buy branch / the sell branch on day i.
takes_buy(pos, row) == pos = 0 /\ row.buy_signal

\* The sell branch taken whenever the sell signal holds, FLAT or LONG.
takes_sell_any_position(pos, row) == row.sell_signal

takes_sell(pos, row) == pos = 1 /\ row.sell_signal

\* Mutant: the buy branch leaves the capital column untouched.
after_buy_keeps_capital(row, prev) ==
    [row EXCEPT !.position = 1,
                !.holdings = buy_holdings(prev.capital, row.price)]

\* Lines 129-132: the buy branch.
after_buy(row, prev) ==
    [row EXCEPT !.position = 1,
                !.holdings = buy_holdings(prev.capital, row.price),
                !.capital = F(0)]

\* Lines 137-140: the sell branch.
after_sell(row, prev) ==
    [row EXCEPT !.position = 0,
                !.capital = sell_capital(prev.holdings, row.price),
                !.holdings = F(0)]

\* Mutant: the carried capital is marked to the day's price.
carry_forward_marked(row, prev) ==
    [row EXCEPT !.position = prev.position,
                !.capital = FDiv(FMul(prev.capital, row.price), prev.price),
                !.holdings = prev.holdings]

\* Lines 144-146: carry forward.
carry_forward(row, prev) ==
    [row EXCEPT !.position = prev.position,
                !.capital = prev.capital,
                !.holdings = prev.holdings]

\* portfolio_value that counts the cash only.
with_portfolio_value_cash_only(row) ==
    [row EXCEPT !.portfolio_value = row.capital]

\* Lines 149-151.
with_portfolio_value(row) ==
    [row EXCEPT !.portfolio_value = FAdd(row.capital, FMul(row.holdings, row.price))]

\* Row i after one pass of the loop body (lines 126-151).
simulated_row(d, pos, day) ==
    IF takes_buy(pos, iloc(d, day))
    THEN with_portfolio_value(after_buy(iloc(d, day), iloc(d, day - 1)))
    ELSE IF takes_sell(pos, iloc(d, day))
    THEN with_portfolio_value(after_sell(iloc(d, day), iloc(d, day - 1)))
    ELSE with_portfolio_value(carry_forward(iloc(d, day), iloc(d, day - 1)))

\* The local variable `position` after the loop body of day i.
simulated_position(d, pos, day) ==
    IF takes_buy(pos, iloc(d, day)) THEN 1
    ELSE IF takes_sell(pos, iloc(d, day)) THEN 0
    ELSE pos

\* num_trades that counts the entries (0 -> 1) only.
count_trades_entries(d) ==
    Cardinality({j \in 2..Len(d) : d[j].position > d[j - 1].position})

\* num_trades: rows whose position differs from the previous row's.
count_trades(d) == Cardinality({j \in 2..Len(d) : d[j].position # d[j - 1].position})

\* Columns initialised as MACrossoverStrategy.backtest does: no portfolio
\* value before the simulation reaches the row.
backtest_columns_unvalued(metrics, capital) ==
    [j \in 1..Len(metrics) |->
        metrics[j] @@ [position |-> 0,
                       capital |-> capital,
                       holdings |-> F(0),
                       portfolio_value |-> F(0)]]

\* Lines 118-121: the four columns the backtest adds to the metrics dataframe.
backtest_columns(metrics, capital) ==
    [j \in 1..Len(metrics) |->
        metrics[j] @@ [position |-> 0,
                       capital |-> capital,
                       holdings |-> F(0),
                       portfolio_value |-> capital]]

InitBacktest ==
    /\ pc = "init"
    /\ self \in StrategyParams
    /\ historical_data \in
          {[j \in 1..Len(sq) |-> F(sq[j])] : sq \in BacktestSeries(self.lookback_period)}
    /\ initial_capital \in InitialCapitals
    /\ df = <<>>
    /\ position = 0
    /\ i = 0
    /\ results = NoResults

\* Lines 113-124: the metrics, then the four backtest columns.
BacktestStart ==
    /\ pc = "init"
    /\ df' = backtest_columns(calculate_metrics(historical_data, self), initial_capital)
    /\ position' = 0
    /\ i' = self.lookback_period
    /\ pc' = "loop"
    /\ UNCHANGED <<self, historical_data, initial_capital, results>>

\* Lines 125-151: one iteration of the simulation loop.
BacktestDay ==
    /\ pc = "loop"
    /\ i < Len(df)
    /\ df' = [df EXCEPT ![i + 1] = simulated_row(df, position, i)]
    /\ position' = simulated_position(df, position, i)
    /\ i' = i + 1
    /\ UNCHANGED <<pc, self, historical_data, initial_capital, results>>

\* Lines 153-173: the returned metrics.
BacktestFinish ==
    /\ pc = "loop"
    /\ i >= Len(df)
    /\ LET starting_value == iloc(df, self.lookback_period).portfolio_value
           ending_value == iloc(df, -1).portfolio_value
       IN  results' =
             [returned |-> TRUE,
              total_return |->
                  FMul(FSub(FDiv(ending_value, starting_value), F(1)), F(100)),
              buy_hold_return |->
                  FMul(FSub(FDiv(iloc(df, -1).price,
                                 iloc(df, self.lookback_period).price), F(1)),
                       F(100)),
              num_trades |-> count_trades(df),
              initial_capital |-> initial_capital,
              ending_capital |-> ending_value]
    /\ pc' = "done"
    /\ UNCHANGED <<self, historical_data, initial_capital, df, position, i>>

NextBacktest == BacktestStart \/ BacktestDay \/ BacktestFinish

SpecBacktest == InitBacktest /\ [][NextBacktest]_vars

(***************************************************************************)
(* MACrossoverStrategy (dexy/tools/mean_reversion/algo_trading_toolkit.py) *)
(***************************************************************************)
\* Longest series tried for the crossover backtest.
MaxCrossDays == 6

CrossLevels == {2, 3, 4}

\* Constructor arguments tried (the defaults are 10 and 50).
CrossParams ==
    {[fast_period |-> 1, slow_period |-> 2],
     [fast_period |-> 2, slow_period |-> 3]}

Max(a, b) == IF a >= b THEN a ELSE b

\* max(self.slow_period, self.fast_period): the row that gets the capital.
start_idx(params) == Max(params.slow_period, params.fast_period)

\* The signal with the two sides exchanged.
crossover_signal_inverted(ma_diff) ==
    IF FGt(ma_diff, F(0)) THEN -1 ELSE IF FLt(ma_diff, F(0)) THEN 1 ELSE 0

\* Lines 71-73: 1 where fast MA > slow MA, -1 where it is below, else 0.
crossover_signal(ma_diff) ==
    IF FGt(ma_diff, F(0)) THEN 1 ELSE IF FLt(ma_diff, F(0)) THEN -1 ELSE 0

\* calculate_signals without the shift(1): the position is the signal of
\* the same day.
calculate_signals_unlagged(prices, params) ==
    LET fast_ma == rolling_mean(prices, params.fast_period)
        slow_ma == rolling_mean(prices, params.slow_period)
        signal == [j \in 1..Len(prices) |->
                      crossover_signal(FSub(fast_ma[j], slow_ma[j]))]
    IN  [j \in 1..Len(prices) |->
            [price |-> prices[j],
             fast_ma |-> fast_ma[j],
             slow_ma |-> slow_ma[j],
             ma_diff |-> FSub(fast_ma[j], slow_ma[j]),
             signal |-> signal[j],
             position |-> signal[j]]]

\* calculate_signals: the dataframe as a sequence of rows.
calculate_signals(prices, params) ==
    LET fast_ma == rolling_mean(prices, params.fast_period)
        slow_ma == rolling_mean(prices, params.slow_period)
        signal == [j \in 1..Len(prices) |->
                      crossover_signal(FSub(fast_ma[j], slow_ma[j]))]
    IN  [j \in 1..Len(prices) |->
            [price |-> prices[j],
             fast_ma |-> fast_ma[j],
             slow_ma |-> slow_ma[j],
             ma_diff |-> FSub(fast_ma[j], slow_ma[j]),
             signal |-> signal[j],
             \* signal.shift(1).fillna(0)
             position |-> IF j = 1 THEN 0 ELSE signal[j - 1]]]

\* Lines 94-99: three zero columns, then the capital in row start_idx.
crossover_columns(signals, params, capital) ==
    [j \in 1..Len(signals) |->
        signals[j] @@ [capital |-> IF j = start_idx(params) + 1 THEN capital ELSE F(0),
                       holdings |-> F(0),
                       portfolio_value |-> F(0)]]

\* Lines 113-119: a rising position buys with the capital of the day before.
cross_buy(row, prev) ==
    [row EXCEPT !.capital = F(0),
                !.holdings = FDiv(prev.capital, row.price)]

\* Lines 121-126: a falling position sells the holdings of the day before.
cross_sell(row, prev) ==
    [row EXCEPT !.capital = FMul(prev.holdings, row.price),
                !.holdings = F(0)]

\* Lines 109-110: copy values by default.
cross_copy(row, prev) ==
    [row EXCEPT !.capital = prev.capital, !.holdings = prev.holdings]

\* Row i after one pass of the loop body (lines 103-131).
crossover_row(d, day) ==
    LET position_change == iloc(d, day).position - iloc(d, day - 1).position
    IN  IF position_change > 0
        THEN with_portfolio_value(cross_buy(iloc(d, day), iloc(d, day - 1)))
        ELSE IF position_change < 0
        THEN with_portfolio_value(cross_sell(iloc(d, day), iloc(d, day - 1)))
        ELSE with_portfolio_value(cross_copy(iloc(d, day), iloc(d, day - 1)))

\* Lines 145-146: len(df[df["position"].diff() != 0]); the diff of the first
\* row is nan, and nan != 0 holds.
count_position_diffs(d) ==
    Cardinality({j \in 1..Len(d) : j = 1 \/ d[j].position # d[j - 1].position})

InitCrossover ==
    /\ pc = "init"
    /\ self \in CrossParams
    /\ historical_data \in
          {[j \in 1..Len(sq) |-> F(sq[j])] :
              sq \in UNION {SeqsOfLen(CrossLevels, n) :
                               n \in (start_idx(self) + 1)..MaxCrossDays}}
    /\ initial_capital \in InitialCapitals
    /\ df = <<>>
    /\ position = 0
    /\ i = 0
    /\ results = NoResults

\* Lines 87-99.
CrossoverStart ==
    /\ pc = "init"
    /\ df' = crossover_columns(calculate_signals(historical_data, self), self,
                               initial_capital)
    /\ i' = start_idx(self) + 1
    /\ pc' = "loop"
    /\ UNCHANGED <<self, historical_data, initial_capital, position, results>>

\* Lines 102-131: one iteration of the simulation loop.
CrossoverDay ==
    /\ pc = "loop"
    /\ i < Len(df)
    /\ df' = [df EXCEPT ![i + 1] = crossover_row(df, i)]
    /\ i' = i + 1
    /\ UNCHANGED <<pc, self, historical_data, initial_capital, position, results>>

\* Lines 133-161.
CrossoverFinish ==
    /\ pc = "loop"
    /\ i >= Len(df)
    /\ results' =
          [returned |-> TRUE,
           total_return |->
               FMul(FSub(FDiv(iloc(df, -1).portfolio_value, initial_capital), F(1)),
                    F(100)),
           buy_hold_return |->
               FMul(FSub(FDiv(iloc(df, -1).price, iloc(df, start_idx(self)).price),
                         F(1)),
                    F(100)),
           num_trades |-> count_position_diffs(df),
           initial_capital |-> initial_capital,
           ending_capital |-> iloc(df, -1).portfolio_value]
    /\ pc' = "done"
    /\ UNCHANGED <<self, historical_data, initial_capital, df, position, i>>

NextCrossover == CrossoverStart \/ CrossoverDay \/ CrossoverFinish

SpecCrossover == InitCrossover /\ [][NextCrossover]_vars

(***************************************************************************)
(* Direct calls of the indicator functions.  historical_data is the price  *)
(* list handed over as `prices`; results records the call and what it      *)
(* returned.                                                               *)
(***************************************************************************)
\* Longest price list handed to an indicator.
MaxPrices == 5

\* Largest window argument tried.
MaxWindow == 3

PriceLevels == {2, 3, 11}

Windows == 0..MaxWindow

NumStds == {F(-1), F(0), F(2)}

InitIndicators ==
    /\ pc = "init"
    /\ self = [lookback_period |-> 0]
    /\ historical_data \in
          {[j \in 1..Len(sq) |-> F(sq[j])] :
              sq \in UNION {SeqsOfLen(PriceLevels, n) : n \in 1..MaxPrices}}
    /\ initial_capital = F(0)
    /\ df = <<>>
    /\ position = 0
    /\ i = 0
    /\ results = NoResults

CallZScore ==
    /\ pc = "init"
    /\ \E window \in Windows :
          results' = [returned |-> TRUE,
                      fn |-> "calculate_z_score",
                      window |-> window,
                      value |-> calculate_z_score(historical_data, window)]
    /\ pc' = "done"
    /\ UNCHANGED <<self, historical_data, initial_capital, df, position, i>>

CallRsi ==
    /\ pc = "init"
    /\ \E window \in Windows :
          results' = [returned |-> TRUE,
                      fn |-> "calculate_rsi",
                      window |-> window,
                      value |-> calculate_rsi(historical_data, window)]
    /\ pc' = "done"
    /\ UNCHANGED <<self, historical_data, initial_capital, df, position, i>>

CallBollingerBands ==
    /\ pc = "init"
    /\ \E window \in Windows, num_std \in NumStds :
          results' = [returned |-> TRUE,
                      fn |-> "calculate_bollinger_bands",
                      window |-> window,
                      num_std |-> num_std,
                      value |-> calculate_bollinger_bands(historical_data, window,
                                                          num_std)]
    /\ pc' = "done"
    /\ UNCHANGED <<self, historical_data, initial_capital, df, position, i>>

NextIndicators == CallZScore \/ CallRsi \/ CallBollingerBands

SpecIndicators == InitIndicators /\ [][NextIndicators]_vars

(***************************************************************************)
(* Direct calls of calculate_average_true_range                            *)
(* (tools/mean_reversion/core/indicators.py).  historical_data is the list *)
(* of candles handed over as `ohlc_data`.                                  *)
(***************************************************************************)
\* Longest candle list handed to calculate_average_true_range.
MaxCandles == 3

CandleLevels == {1, 2, 4}

\* OHLCData with low <= close <= high (open, volume and timestamp are not
\* read by the true range).
Candles ==
    {[high |-> F(h), low |-> F(l), close |-> F(c)] :
        <<h, l, c>> \in {t \in CandleLevels \X CandleLevels \X CandleLevels :
                            t[2] <= t[3] /\ t[3] <= t[1]}}

InitATR ==
    /\ pc = "init"
    /\ self = [lookback_period |-> 0]
    /\ historical_data \in UNION {SeqsOfLen(Candles, n) : n \in 1..MaxCandles}
    /\ initial_capital = F(0)
    /\ df = <<>>
    /\ position = 0
    /\ i = 0
    /\ results = NoResults

CallATR ==
    /\ pc = "init"
    /\ \E window \in 1..MaxWindow :
          results' = [returned |-> TRUE,
                      fn |-> "calculate_average_true_range",
                      window |-> window,
                      value |-> calculate_average_true_range(historical_data,
                                                             window)]
    /\ pc' = "done"
    /\ UNCHANGED <<self, historical_data, initial_capital, df, position, i>>

NextATR == CallATR

SpecATR == InitATR /\ [][NextATR]_vars

(***************************************************************************)
(* MeanReversionIndicators.interpret_* and                                 *)
(* MeanReversionService.get_all_metrics                                    *)
(* (dexy/tools/mean_reversion/core/indicators.py).                         *)
(***************************************************************************)
interpret_z_score(z_score) ==
    IF FGt(z_score, F(2)) THEN "POTENTIAL DOWNWARD REVERSION (Overvalued)"
    ELSE IF FLt(z_score, F(-2)) THEN "POTENTIAL UPWARD REVERSION (Undervalued)"
    ELSE "NEUTRAL"

\* interpret_rsi with inclusive thresholds.
interpret_rsi_inclusive(rsi) ==
    IF FGe(rsi, Exact(70)) THEN "POTENTIAL DOWNWARD REVERSION (Overbought)"
    ELSE IF FLe(rsi, Exact(30)) THEN "POTENTIAL UPWARD REVERSION (Oversold)"
    ELSE "NEUTRAL"

interpret_rsi(rsi) ==
    IF FGt(rsi, Exact(70)) THEN "POTENTIAL DOWNWARD REVERSION (Overbought)"
    ELSE IF FLt(rsi, Exact(30)) THEN "POTENTIAL UPWARD REVERSION (Oversold)"
    ELSE "NEUTRAL"

\* interpret_bb with the two reversion labels exchanged.
interpret_bb_inverted(percent_b) ==
    IF FGt(percent_b, F(1)) THEN "POTENTIAL UPWARD REVERSION (Below Lower Band)"
    ELSE IF FLt(percent_b, F(0)) THEN "POTENTIAL DOWNWARD REVERSION (Above Upper Band)"
    ELSE "NEUTRAL (Within Bands)"

interpret_bb(percent_b) ==
    IF FGt(percent_b, F(1)) THEN "POTENTIAL DOWNWARD REVERSION (Above Upper Band)"
    ELSE IF FLt(percent_b, F(0)) THEN "POTENTIAL UPWARD REVERSION (Below Lower Band)"
    ELSE "NEUTRAL (Within Bands)"

\* raise ValueError(f"Error calculating metrics for {token_id}: ...")
ServiceError == [ok |-> FALSE]

\* The "metrics" dictionary of the response.
metrics_response(z_score, z_window, rsi, rsi_window, bb_data, bb_window, bb_std) ==
    [z_score |-> [value |-> z_score,
                  window |-> z_window,
                  interpretation |-> interpret_z_score(z_score)],
     rsi |-> [value |-> rsi,
              window |-> rsi_window,
              interpretation |-> interpret_rsi(rsi)],
     bollinger_bands |-> [upper_band |-> bb_data.upper_band,
                          middle_band |-> bb_data.middle_band,
                          lower_band |-> bb_data.lower_band,
                          percent_b |-> bb_data.percent_b,
                          window |-> bb_window,
                          std_multiplier |-> bb_std,
                          interpretation |-> interpret_bb(bb_data.percent_b)]]

\* get_all_metrics that reports the indicators that could be computed and
\* leaves out the RSI when only calculate_rsi raised.
get_all_metrics_partial(fetched, prices, z_window, rsi_window, bb_window, bb_std) ==
    IF ~fetched \/ Len(prices) = 0 THEN ServiceError
    ELSE LET z_score == calculate_z_score(prices, z_window)
             rsi == calculate_rsi(prices, rsi_window)
             bb_data == calculate_bollinger_bands(prices, bb_window, bb_std)
         IN  IF Raised(z_score) \/ ~bb_data.ok THEN ServiceError
             ELSE [ok |-> TRUE,
                   current_price |-> prices[Len(prices)],
                   metrics |-> metrics_response(z_score, z_window, rsi,
                                                rsi_window, bb_data, bb_window,
                                                bb_std)]

\* get_all_metrics: one try block around the fetch (fetched = FALSE when
\* the API call raised), prices[-1], the three indicator calls and the
\* response; any exception is re-raised as ValueError.
get_all_metrics(fetched, prices, z_window, rsi_window, bb_window, bb_std) ==
    IF ~fetched \/ Len(prices) = 0 THEN ServiceError
    ELSE LET z_score == calculate_z_score(prices, z_window)
             rsi == calculate_rsi(prices, rsi_window)
             bb_data == calculate_bollinger_bands(prices, bb_window, bb_std)
         IN  IF Raised(z_score) \/ Raised(rsi) \/ ~bb_data.ok THEN ServiceError
             ELSE [ok |-> TRUE,
                   current_price |-> prices[Len(prices)],
                   metrics |-> metrics_response(z_score, z_window, rsi,
                                                rsi_window, bb_data, bb_window,
                                                bb_std)]

ServiceLevels == {2, 3}

\* historical_data is what self.api.get_historical_prices returns.
InitService ==
    /\ pc = "init"
    /\ self = [lookback_period |-> 0]
    /\ historical_data \in
          {[j \in 1..Len(sq) |-> F(sq[j])] :
              sq \in UNION {SeqsOfLen(ServiceLevels, n) : n \in 0..MaxPrices}}
    /\ initial_capital = F(0)
    /\ df = <<>>
    /\ position = 0
    /\ i = 0
    /\ results = NoResults

GetAllMetrics ==
    /\ pc = "init"
    /\ \E fetched \in BOOLEAN, z_window \in Windows, rsi_window \in Windows,
          bb_window \in Windows, bb_std \in NumStds :
          results' = [returned |-> TRUE,
                      fn |-> "get_all_metrics",
                      fetched |-> fetched,
                      z_window |-> z_window,
                      rsi_window |-> rsi_window,
                      bb_window |-> bb_window,
                      bb_std |-> bb_std,
                      value |-> get_all_metrics(fetched, historical_data,
                                                z_window, rsi_window, bb_window,
                                                bb_std)]
    /\ pc' = "done"
    /\ UNCHANGED <<self, historical_data, initial_capital, df, position, i>>

NextService == GetAllMetrics

SpecService == InitService /\ [][NextService]_vars

(***************************************************************************)
(* Direct calls of interpret_z_score, interpret_rsi and interpret_bb.      *)
(***************************************************************************)
\* Readings run over the halves from -MaxReading / 2 to MaxReading / 2.
MaxReading == 150

Readings == {Canon(n, -1) : n \in (-MaxReading)..MaxReading} \cup {NaN}

InitInterpret ==
    /\ pc = "init"
    /\ self = [lookback_period |-> 0]
    /\ historical_data = <<>>
    /\ initial_capital = F(0)
    /\ df = <<>>
    /\ position = 0
    /\ i = 0
    /\ results = NoResults

InterpretZScore ==
    /\ pc = "init"
    /\ \E z_score \in Readings :
          results' = [returned |-> TRUE,
                      fn |-> "interpret_z_score",
                      arg |-> z_score,
                      value |-> interpret_z_score(z_score)]
    /\ pc' = "done"
    /\ UNCHANGED <<self, historical_data, initial_capital, df, position, i>>

InterpretRsi ==
    /\ pc = "init"
    /\ \E rsi \in Readings :
          results' = [returned |-> TRUE,
                      fn |-> "interpret_rsi",
                      arg |-> rsi,
                      value |-> interpret_rsi(rsi)]
    /\ pc' = "done"
    /\ UNCHANGED <<self, historical_data, initial_capital, df, position, i>>

InterpretBB ==
    /\ pc = "init"
    /\ \E percent_b \in Readings :
          results' = [returned |-> TRUE,
                      fn |-> "interpret_bb",
                      arg |-> percent_b,
                      value |-> interpret_bb(percent_b)]
    /\ pc' = "done"
    /\ UNCHANGED <<self, historical_data, initial_capital, df, position, i>>

NextInterpret == InterpretZScore \/ InterpretRsi \/ InterpretBB

SpecInterpret == InitInterpret /\ [][NextInterpret]_vars

(***************************************************************************)
(* backtest_strategy with the constructor defaults on a flat series that   *)
(* ends in one different price.                                            *)
(***************************************************************************)
\* Most days at the flat price before the last day.
MaxFlatDays == 19

\* MeanReversionStrategy(): lookback_period=10, z_threshold=2.0,
\* rsi_overbought=70, rsi_oversold=30.
DefaultParams ==
    [lookback_period |-> 10, z_threshold |-> 2, rsi_overbought |-> 70,
     rsi_oversold |-> 30]

FlatPrice == F(100)

LastPrices == {F(50), F(100), F(200)}

\* [100] * flat + [last]
FlatThen(flat, last) == [j \in 1..(flat + 1) |-> IF j <= flat THEN FlatPrice ELSE last]

InitFlatSeries ==
    /\ pc = "init"
    /\ self = DefaultParams
    /\ historical_data \in
          {FlatThen(flat, last) :
              flat \in self.lookback_period..MaxFlatDays, last \in LastPrices}
    /\ initial_capital \in InitialCapitals
    /\ df = <<>>
    /\ position = 0
    /\ i = 0
    /\ results = NoResults

SpecFlatSeries == InitFlatSeries /\ [][NextBacktest]_vars

(***************************************************************************)
(* get_ma_crossover_signal(token_id, fast_period=5, slow_period=20) on     *)
(* monotonically increasing prices.                                        *)
(***************************************************************************)
\* Longest series tried (the function fetches max(slow_period, fast_period)
\* + 10 days).
MaxTrendDays == 25

TrendParams == [fast_period |-> 5, slow_period |-> 20]

TrendLevels == {2, 3, 4}

\* The non-decreasing series of n prices over TrendLevels, built from the
\* change points: a days of 2, b - a days of 3, the rest of 4.
StepSeries(n) ==
    {[j \in 1..n |-> IF j <= a THEN 2 ELSE IF j <= b THEN 3 ELSE 4] :
        <<a, b>> \in {t \in (0..n) \X (0..n) : t[1] <= t[2]}}

\* Lines 262-275: the last signal as text.
signal_text(current_signal) ==
    IF current_signal = 1 THEN "BUY"
    ELSE IF current_signal = -1 THEN "SELL"
    ELSE "HOLD"

InitTrend ==
    /\ pc = "init"
    /\ self = TrendParams
    /\ historical_data \in
          {[j \in 1..Len(sq) |-> F(sq[j])] :
              sq \in UNION {StepSeries(n) :
                               n \in (start_idx(self) + 1)..MaxTrendDays}}
    /\ initial_capital = F(0)
    /\ df = <<>>
    /\ position = 0
    /\ i = 0
    /\ results = NoResults

\* get_ma_crossover_signal, lines 253-275.
GetMACrossoverSignal ==
    /\ pc = "init"
    /\ df' = calculate_signals(historical_data, self)
    /\ results' = [returned |-> TRUE,
                   fn |-> "get_ma_crossover_signal",
                   signal |-> signal_text(
                       iloc(calculate_signals(historical_data, self), -1).signal)]
    /\ pc' = "done"
    /\ UNCHANGED <<self, historical_data, initial_capital, position, i>>

NextTrend == GetMACrossoverSignal

SpecTrend == InitTrend /\ [][NextTrend]_vars

(***************************************************************************)
(* The aggregate signal of mean_reversion_analyzer and                     *)
(* get_advanced_indicators: a vote among the three interpretations.        *)
(***************************************************************************)
\* Python's  needle in s  for strings: needle occurs as a substring of s.
contains(needle, s) ==
    \E k \in 1..(Len(s) - Len(needle) + 1) :
        SubSeq(s, k, k + Len(needle) - 1) = needle

\* sum(1 for s in signals if needle in s)
count_signals(needle, signals) ==
    Cardinality({k \in DOMAIN signals : contains(needle, signals[k])})

\* The vote in which a tie goes to the upward side.
overall_signal_ties_up(signals) ==
    IF count_signals("UPWARD", signals) >= count_signals("DOWNWARD", signals)
    THEN "POTENTIAL UPWARD REVERSION"
    ELSE "POTENTIAL DOWNWARD REVERSION"

\* mean_reversion_analyzer: overall_signal
overall_signal(signals) ==
    LET upward_signals == count_signals("UPWARD", signals)
        downward_signals == count_signals("DOWNWARD", signals)
    IN  IF upward_signals > downward_signals
        THEN "POTENTIAL UPWARD REVERSION"
        ELSE IF downward_signals > upward_signals
        THEN "POTENTIAL DOWNWARD REVERSION"
        ELSE "NEUTRAL"

\* get_advanced_indicators: overall_sentiment
overall_sentiment(signals) ==
    LET bullish_signals == count_signals("UPWARD", signals)
        bearish_signals == count_signals("DOWNWARD", signals)
    IN  IF bullish_signals > bearish_signals THEN "BULLISH"
        ELSE IF bearish_signals > bullish_signals THEN "BEARISH"
        ELSE "NEUTRAL"

\* Indicator values on both sides of, and on, the thresholds.
ZReadings == {F(-3), F(-2), F(0), F(2), F(3), NaN}
RsiReadings == {Exact(20), Exact(30), Exact(50), Exact(70), Exact(80), NaN}
BBReadings == {F(-1), F(0), Canon(1, -1), F(1), F(2), NaN}

\* signals = [z_signal, rsi_signal, bb_signal]
signals_of(z_score, rsi, percent_b) ==
    <<interpret_z_score(z_score), interpret_rsi(rsi), interpret_bb(percent_b)>>

InitAnalyzer ==
    /\ pc = "init"
    /\ self = [lookback_period |-> 0]
    /\ historical_data = <<>>
    /\ initial_capital = F(0)
    /\ df = <<>>
    /\ position = 0
    /\ i = 0
    /\ results = NoResults

MeanReversionAnalyzer ==
    /\ pc = "init"
    /\ \E z_score \in ZReadings, rsi \in RsiReadings, percent_b \in BBReadings :
          results' = [returned |-> TRUE,
                      fn |-> "mean_reversion_analyzer",
                      z_score |-> z_score, rsi |-> rsi, percent_b |-> percent_b,
                      signals |-> signals_of(z_score, rsi, percent_b),
                      value |-> overall_signal(signals_of(z_score, rsi, percent_b))]
    /\ pc' = "done"
    /\ UNCHANGED <<self, historical_data, initial_capital, df, position, i>>

GetAdvancedIndicators ==
    /\ pc = "init"
    /\ \E z_score \in ZReadings, rsi \in RsiReadings, percent_b \in BBReadings :
          results' = [returned |-> TRUE,
                      fn |-> "get_advanced_indicators",
                      z_score |-> z_score, rsi |-> rsi, percent_b |-> percent_b,
                      signals |-> signals_of(z_score, rsi, percent_b),
                      value |-> overall_sentiment(signals_of(z_score, rsi, percent_b))]
    /\ pc' = "done"
    /\ UNCHANGED <<self, historical_data, initial_capital, df, position, i>>

NextAnalyzer == MeanReversionAnalyzer \/ GetAdvancedIndicators

SpecAnalyzer == InitAnalyzer /\ [][NextAnalyzer]_vars

(***************************************************************************)
(* Whale-dominance risk: generate_risk_signals, get_risk_multiplier and    *)
(* apply_risk_multiplier.  A risk score is a Python number; it is held as  *)
(* a float here (the scores are small integers, which floats hold exactly) *)
(* so that it can be compared with None.  The labels are the source's      *)
(* without their leading emoji.                                            *)
(***************************************************************************)
None == [k |-> "none", m |-> 0, e |-> 0]

generate_risk_signals(current__dom, historical__dom, current_whales, historical_whales) ==
    LET \* Python truthiness of an Optional[float]: None and 0 are false.
        truthy(x) == x # None /\ ~IsZero(x)
        \* ((current - historical) / historical) * 100
        deviation(current, historical) ==
            FMul(FDiv(FSub(current, historical), historical), Exact(100))
        dom == IF truthy(current__dom) /\ truthy(historical__dom)
               THEN LET d == deviation(current__dom, historical__dom)
                    IN  IF FGt(d, F(5))
                        THEN [score |-> 2, msg |-> <<"Dominance above historical average">>]
                        ELSE IF FLt(d, F(-5))
                        THEN [score |-> 1, msg |-> <<"Dominance below historical average">>]
                        ELSE [score |-> 0, msg |-> <<>>]
               ELSE [score |-> 0, msg |-> <<>>]
        whales == IF truthy(current_whales) /\ truthy(historical_whales)
                  THEN LET d == deviation(current_whales, historical_whales)
                       IN  IF FGt(d, Exact(50))
                           THEN [score |-> 3, msg |-> <<"Whale transactions above historical average">>]
                           ELSE IF FLt(d, Exact(-50))
                           THEN [score |-> 1, msg |-> <<"Whale transactions below historical average">>]
                           ELSE [score |-> 0, msg |-> <<>>]
                  ELSE [score |-> 0, msg |-> <<>>]
        risk_score == dom.score + whales.score
    IN  [risk_score |-> F(risk_score),
         level |-> IF risk_score >= 5 THEN "HIGH RISK ALERT"
                   ELSE IF risk_score >= 3 THEN "MODERATE RISK"
                   ELSE "LOW RISK",
         signals |-> dom.msg \o whales.msg]

\* The multiplier logic with the moderate band starting at a score of 3.
multiplier_logic_from_three(risk_score) ==
    IF FGe(risk_score, F(5))
    THEN [multiplier |-> F(2),
          explanation |-> "High whale activity/dominance detected - doubling signal strength"]
    ELSE IF FGe(risk_score, F(3))
    THEN [multiplier |-> Canon(3, -1),
          explanation |-> "Moderate whale activity/dominance detected - increasing signal strength by 50%"]
    ELSE [multiplier |-> F(1),
          explanation |-> "Normal whale activity/dominance - maintaining original signal strength"]

\* get_risk_multiplier: "Apply multiplier logic"
multiplier_logic(risk_score) ==
    IF FGe(risk_score, F(5))
    THEN [multiplier |-> F(2),
          explanation |-> "High whale activity/dominance detected - doubling signal strength"]
    ELSE IF FGe(risk_score, F(2))
    THEN [multiplier |-> Canon(3, -1),
          explanation |-> "Moderate whale activity/dominance detected - increasing signal strength by 50%"]
    ELSE [multiplier |-> F(1),
          explanation |-> "Normal whale activity/dominance - maintaining original signal strength"]

\* risk_data is what generate_risk_signals() returns at the time of the call;
\* it is consulted only when no risk score is supplied.
get_risk_multiplier(risk_score, risk_data) ==
    LET score == IF risk_score = None THEN risk_data.risk_score ELSE risk_score
        logic == multiplier_logic(score)
    IN  [multiplier |-> logic.multiplier,
         risk_score |-> score,
         risk_level |-> IF risk_score = None THEN risk_data.level
                        ELSE IF FGe(risk_score, F(5)) THEN "HIGH RISK ALERT"
                        ELSE IF FGe(risk_score, F(2)) THEN "MODERATE RISK"
                        ELSE "LOW RISK",
         risk_signals |-> IF risk_score = None THEN risk_data.signals
                          ELSE <<"Using provided risk score">>,
         explanation |-> logic.explanation]

apply_risk_multiplier(signal_value, risk_score, risk_data) ==
    LET multiplier_data == get_risk_multiplier(risk_score, risk_data)
    IN  multiplier_data
            @@ [original_value |-> signal_value,
                adjusted_value |-> FMul(signal_value, multiplier_data.multiplier)]

MaxRiskScore == 8

\* Dominance and whale-count readings: unavailable, zero, and values half,
\* equal to and twice the historical average of 4.
RiskData ==
    LET readings == {None, F(0), F(1), F(2), F(4), F(8)}
    IN  {generate_risk_signals(cd, hd, cw, hw) :
            cd \in readings, hd \in {None, F(4)},
            cw \in readings, hw \in {None, F(4)}}

SuppliedScores == {F(n) : n \in (-2)..MaxRiskScore} \cup {Canon(2 * n + 1, -1) : n \in 0..5}

SignalValues == {Canon(n, -1) : n \in (-20)..20}

InitRisk ==
    /\ pc = "init"
    /\ self = [lookback_period |-> 0]
    /\ historical_data = <<>>
    /\ initial_capital = F(0)
    /\ df = <<>>
    /\ position = 0
    /\ i = 0
    /\ results = NoResults

GetRiskMultiplier ==
    /\ pc = "init"
    /\ \E risk_score \in SuppliedScores \cup {None}, risk_data \in RiskData :
          results' = [returned |-> TRUE,
                      fn |-> "get_risk_multiplier",
                      arg |-> risk_score,
                      value |-> get_risk_multiplier(risk_score, risk_data)]
    /\ pc' = "done"
    /\ UNCHANGED <<self, historical_data, initial_capital, df, position, i>>

ApplyRiskMultiplier ==
    /\ pc = "init"
    /\ \E signal_value \in SignalValues,
          risk_score \in SuppliedScores \cup {None}, risk_data \in RiskData :
          results' = [returned |-> TRUE,
                      fn |-> "apply_risk_multiplier",
                      arg |-> risk_score,
                      signal_value |-> signal_value,
                      value |-> apply_risk_multiplier(signal_value, risk_score, risk_data)]
    /\ pc' = "done"
    /\ UNCHANGED <<self, historical_data, initial_capital, df, position, i>>

(***************************************************************************)
(* The composite mean-reversion score: calculate_mean_reversion_score of   *)
(* integrated_demo.py and the inline version of integrated_crypto_analysis *)
(***************************************************************************)
\* Python's min(a, b) and max(a, b): a unless b compares below (above) it,
\* so a nan in first position is returned.
py_min(a, b) == IF FLt(b, a) THEN b ELSE a

py_max(a, b) == IF FGt(b, a) THEN b ELSE a

\* calculate_mean_reversion_score without its final clamp.
calculate_mean_reversion_score_unclamped(z_score, rsi, percent_b) ==
    FAdd(FAdd(py_max(py_min(FNeg(z_score), F(3)), F(-3)),
              IF FLe(rsi, Exact(30))
              THEN FDiv(FMul(F(3), FSub(Exact(30), rsi)), Exact(30))
              ELSE F(0)),
         FMul(F(-4), FSub(percent_b, Canon(1, -1))))

calculate_mean_reversion_score(z_score, rsi, percent_b) ==
    LET z_score_component == py_max(py_min(FNeg(z_score), F(3)), F(-3))
        rsi_component ==
            IF FLe(rsi, Exact(30))
            THEN FDiv(FMul(F(3), FSub(Exact(30), rsi)), Exact(30))
            ELSE IF FGe(rsi, Exact(70))
            THEN FDiv(FMul(F(-3), FSub(rsi, Exact(70))), Exact(30))
            ELSE F(0)
        bb_component ==
            IF FLe(percent_b, F(0))
            THEN FMul(F(4), py_min(FAbs(percent_b), F(1)))
            ELSE IF FGe(percent_b, F(1))
            THEN FMul(F(-4), py_min(FSub(percent_b, F(1)), F(1)))
            ELSE FMul(F(-4), FSub(percent_b, Canon(1, -1)))
        total_score == FAdd(FAdd(z_score_component, rsi_component), bb_component)
    IN  py_max(py_min(total_score, F(10)), F(-10))

\* integrated_crypto_analysis: mr_score
mr_score_of(z_score, rsi, percent_b) ==
    LET z_component == py_max(py_min(FMul(FNeg(z_score), Canon(3, -1)), F(5)), F(-5))
        rsi_component ==
            IF FLe(rsi, Exact(30)) THEN FDiv(FSub(Exact(30), rsi), F(6))
            ELSE IF FGe(rsi, Exact(70)) THEN FDiv(FNeg(FSub(rsi, Exact(70))), F(6))
            ELSE F(0)
        bb_component ==
            IF FLe(percent_b, F(0))
            THEN FMul(py_min(FAbs(percent_b), F(1)), F(5))
            ELSE IF FGe(percent_b, F(1))
            THEN (IF FLe(percent_b, F(2))
                  THEN FMul(FNeg(FSub(percent_b, F(1))), F(5))
                  ELSE F(-5))
            ELSE FMul(FNeg(FSub(percent_b, Canon(1, -1))), F(10))
        mr_score == FAdd(FAdd(z_component, rsi_component), bb_component)
    IN  py_max(py_min(mr_score, F(10)), F(-10))

\* integrated_crypto_analysis: direction
direction_of(mr_score) ==
    IF FGt(mr_score, F(5)) THEN "STRONG UPWARD REVERSION POTENTIAL"
    ELSE IF FGt(mr_score, F(0)) THEN "MODERATE UPWARD REVERSION POTENTIAL"
    ELSE IF FGt(mr_score, F(-5)) THEN "MODERATE DOWNWARD REVERSION POTENTIAL"
    ELSE "STRONG DOWNWARD REVERSION POTENTIAL"

\* Indicator values in and far outside their usual ranges.
ScoreZ == {Inf(-1), F(-8), F(-2), F(0), F(2), F(8), Inf(1), NaN}

ScoreRsi == {Inf(-1), Canon(-1, 10), F(0), Exact(30), Exact(50), Exact(70),
             Exact(100), Canon(1, 10), Inf(1), NaN}

MaxPercentB == 12

ScorePercentB ==
    {Canon(n, -2) : n \in (-MaxPercentB)..MaxPercentB}
        \cup {Inf(-1), Exact(-50), Exact(50), Inf(1), NaN}

CalculateMeanReversionScore ==
    /\ pc = "init"
    /\ \E z_score \in ScoreZ, rsi \in ScoreRsi, percent_b \in ScorePercentB :
          results' = [returned |-> TRUE,
                      fn |-> "calculate_mean_reversion_score",
                      z_score |-> z_score, rsi |-> rsi, percent_b |-> percent_b,
                      value |-> calculate_mean_reversion_score(z_score, rsi, percent_b)]
    /\ pc' = "done"
    /\ UNCHANGED <<self, historical_data, initial_capital, df, position, i>>

\* The tool from the metrics of get_all_metrics on: the score, its
\* direction, the generated risk data and the multiplier applied to the score.
IntegratedCryptoAnalysis ==
    /\ pc = "init"
    /\ \E z_score \in ScoreZ, rsi \in ScoreRsi, percent_b \in ScorePercentB,
          risk_data \in RiskData :
          LET mr_score == mr_score_of(z_score, rsi, percent_b)
              multiplier_data ==
                  apply_risk_multiplier(mr_score, risk_data.risk_score, risk_data)
          IN  results' = [returned |-> TRUE,
                          fn |-> "integrated_crypto_analysis",
                          z_score |-> z_score, rsi |-> rsi, percent_b |-> percent_b,
                          mr_score |-> mr_score,
                          direction |-> direction_of(mr_score),
                          value |-> [risk_score |-> risk_data.risk_score,
                                     risk_level |-> risk_data.level,
                                     multiplier |-> multiplier_data.multiplier,
                                     explanation |-> multiplier_data.explanation,
                                     adjusted_score |-> multiplier_data.adjusted_value]]
    /\ pc' = "done"
    /\ UNCHANGED <<self, historical_data, initial_capital, df, position, i>>

NextRisk ==
    \/ GetRiskMultiplier
    \/ ApplyRiskMultiplier
    \/ CalculateMeanReversionScore
    \/ IntegratedCryptoAnalysis

SpecRisk == InitRisk /\ [][NextRisk]_vars

(***************************************************************************)
(* get_all_metrics with its default arguments scaled down: the Z-score and *)
(* the Bollinger bands over the same window, two standard deviations.      *)
(***************************************************************************)
MaxVoteDays == 6

VoteLevels == {2, 3, 5}

InitSameWindow ==
    /\ pc = "init"
    /\ self = [lookback_period |-> 0]
    /\ historical_data \in
          {[j \in 1..Len(sq) |-> F(sq[j])] :
              sq \in UNION {SeqsOfLen(VoteLevels, n) : n \in 3..MaxVoteDays}}
    /\ initial_capital = F(0)
    /\ df = <<>>
    /\ position = 0
    /\ i = 0
    /\ results = NoResults

\* z_window = bb_window (20 and 20 by default), bb_std = 2.0.
GetAllMetricsSameWindow ==
    /\ pc = "init"
    /\ \E window \in 2..Len(historical_data) :
          results' = [returned |-> TRUE,
                      fn |-> "get_all_metrics",
                      fetched |-> TRUE,
                      z_window |-> window,
                      rsi_window |-> 2,
                      bb_window |-> window,
                      bb_std |-> F(2),
                      value |-> get_all_metrics(TRUE, historical_data,
                                                window, 2, window, F(2))]
    /\ pc' = "done"
    /\ UNCHANGED <<self, historical_data, initial_capital, df, position, i>>

NextSameWindow == GetAllMetricsSameWindow

SpecSameWindow == InitSameWindow /\ [][NextSameWindow]_vars

(***************************************************************************)
(* TokenPriceAPI: the retry loop and the read-through cache of             *)
(* get_historical_prices, for the providers "coingecko" and "defillama".   *)
(* A response is [status, body]; status 200 is a success, 429 is Too Many  *)
(* Requests, and every other status stands for an error that               *)
(* raise_for_status or requests.get raises.  A body is                     *)
(* [ok, prices]: ok = FALSE is a JSON document without the expected keys.  *)
(***************************************************************************)
\* f"{self.api_provider}_{token_id}_{days}"
_get_cache_key(api, token_id, days) ==
    api.api_provider \o "_" \o token_id \o "_" \o ToString(days)

\* The loop that goes on to the next attempt after every error.
make_request_with_retry_any_error(responses, max_retries, attempt) ==
    IF max_retries <= 0
    THEN [raised |-> FALSE, response |-> None, requests |-> 0]
    ELSE LET n == CHOOSE k \in 1..max_retries :
                      /\ k = max_retries \/ responses[k].status = 200
                      /\ \A j \in 1..(k - 1) : responses[j].status # 200
         IN  [raised |-> responses[n].status # 200,
              response |-> responses[n],
              requests |-> n]

\* for attempt in range(max_retries): ... from iteration `attempt` on;
\* responses[k] is what the provider answers to the k-th request.
RECURSIVE make_request_with_retry(_, _, _)
make_request_with_retry(responses, max_retries, attempt) ==
    IF attempt >= max_retries
    THEN [raised |-> FALSE, response |-> None, requests |-> attempt]
    ELSE LET response == responses[attempt + 1]
         IN  IF response.status = 200
             THEN [raised |-> FALSE, response |-> response, requests |-> attempt + 1]
             ELSE IF response.status = 429 /\ attempt < max_retries - 1
             THEN make_request_with_retry(responses, max_retries, attempt + 1)
             ELSE [raised |-> TRUE, response |-> response, requests |-> attempt + 1]

\* The default max_retries of _make_request_with_retry.
DefaultMaxRetries == 3

\* _get_historical_prices_coingecko: one request, then the cache write.
\* plan[1] holds the provider's answers to the requests of this call.
get_historical_prices_coingecko(api, days, cache_key, plan) ==
    LET got == make_request_with_retry(plan[1], DefaultMaxRetries, 0)
    IN  IF got.raised \/ ~got.response.body.ok
        THEN [raised |-> TRUE, value |-> <<>>, requests |-> got.requests, api |-> api]
        ELSE LET prices == got.response.body.prices
                 dates == [j \in 1..Len(prices) |-> j]
             IN  [raised |-> FALSE,
                  value |-> <<prices, dates>>,
                  requests |-> got.requests,
                  api |-> [api EXCEPT !._cache =
                              [k \in DOMAIN @ \cup {cache_key} |->
                                  IF k = cache_key THEN <<prices, dates>> ELSE @[k]]]]

\* The DeFi Llama loop that stores what it has whenever it stops.
RECURSIVE get_historical_prices_defillama_keeps_partial(_, _, _, _, _, _, _, _)
get_historical_prices_defillama_keeps_partial(api, days, cache_key, plan, day, prices, dates, requests) ==
    LET stored == [api EXCEPT !._cache =
                      [k \in DOMAIN @ \cup {cache_key} |->
                          IF k = cache_key THEN <<prices, dates>> ELSE @[k]]]
    IN  IF day >= days
        THEN [raised |-> FALSE, value |-> <<prices, dates>>,
              requests |-> requests, api |-> stored]
        ELSE LET got == make_request_with_retry(plan[day + 1], DefaultMaxRetries, 0)
             IN  IF got.raised \/ ~got.response.body.ok
                 THEN [raised |-> TRUE, value |-> <<>>,
                       requests |-> requests + got.requests, api |-> stored]
                 ELSE get_historical_prices_defillama_keeps_partial(
                          api, days, cache_key, plan, day + 1,
                          got.response.body.prices \o prices,
                          (IF got.response.body.prices = <<>> THEN <<>> ELSE <<day>>)
                              \o dates,
                          requests + got.requests)

\* _get_historical_prices_defillama from iteration `day` of its loop on:
\* one request per day, newest day first; a day without a price is
\* skipped; the lists are reversed (oldest first) and cached after the loop.
RECURSIVE get_historical_prices_defillama(_, _, _, _, _, _, _, _)
get_historical_prices_defillama(api, days, cache_key, plan, day, prices, dates, requests) ==
    IF day >= days
    THEN [raised |-> FALSE,
          value |-> <<prices, dates>>,
          requests |-> requests,
          api |-> [api EXCEPT !._cache =
                      [k \in DOMAIN @ \cup {cache_key} |->
                          IF k = cache_key THEN <<prices, dates>> ELSE @[k]]]]
    ELSE LET got == make_request_with_retry(plan[day + 1], DefaultMaxRetries, 0)
         IN  IF got.raised \/ ~got.response.body.ok
             THEN [raised |-> TRUE, value |-> <<>>,
                   requests |-> requests + got.requests, api |-> api]
             ELSE get_historical_prices_defillama(
                      api, days, cache_key, plan, day + 1,
                      got.response.body.prices \o prices,
                      (IF got.response.body.prices = <<>> THEN <<>> ELSE <<day>>)
                          \o dates,
                      requests + got.requests)

\* get_historical_prices that asks the provider on every call.
get_historical_prices_uncached(api, token_id, days, plan) ==
    IF api.api_provider = "coingecko"
    THEN get_historical_prices_coingecko(api, days,
                                         _get_cache_key(api, token_id, days), plan)
    ELSE get_historical_prices_defillama(api, days,
                                         _get_cache_key(api, token_id, days), plan,
                                         0, <<>>, <<>>, 0)

get_historical_prices(api, token_id, days, plan) ==
    LET cache_key == _get_cache_key(api, token_id, days)
    IN  IF cache_key \in DOMAIN api._cache
        THEN [raised |-> FALSE, value |-> api._cache[cache_key],
              requests |-> 0, api |-> api]
        ELSE IF api.api_provider = "coingecko"
        THEN get_historical_prices_coingecko(api, days, cache_key, plan)
        ELSE get_historical_prices_defillama(api, days, cache_key, plan,
                                             0, <<>>, <<>>, 0)

MaxApiDays == 2

MaxCalls == 3

\* What the provider may answer to one request: a document with or without
\* a price, a malformed document, and the errors 429 and 404.
Responses ==
    {[status |-> 200, body |-> [ok |-> TRUE, prices |-> prices]] :
        prices \in {<<>>, <<1>>}}
        \cup {[status |-> s, body |-> [ok |-> FALSE, prices |-> <<>>]] :
                  s \in {200, 429, 404}}

\* The answers to the successive attempts of one request of
\* get_historical_prices: an answer at once, 429 on every attempt, or a
\* price after one 429.
Exchanges ==
    LET TooMany == [status |-> 429, body |-> [ok |-> FALSE, prices |-> <<>>]]
        Price == [status |-> 200, body |-> [ok |-> TRUE, prices |-> <<1>>]]
    IN  {[k \in 1..DefaultMaxRetries |-> r] : r \in Responses}
            \cup {[k \in 1..DefaultMaxRetries |-> IF k = 1 THEN TooMany ELSE Price]}

\* The state after TokenPriceAPI(api_provider = ...): an empty cache.
\* historical_data records, for every (provider, token, days), what the
\* first successful call returned; i counts the calls made.
InitAPI ==
    /\ pc = "init"
    /\ self \in {[api_provider |-> p, _cache |-> <<>>] : p \in {"coingecko", "defillama"}}
    /\ historical_data = <<>>
    /\ initial_capital = F(0)
    /\ df = <<>>
    /\ position = 0
    /\ i = 0
    /\ results = NoResults

\* A call of get_historical_prices on this instance; the provider's answers
\* during the call are chosen freely: plan[k] answers the k-th request the
\* call may make (one for CoinGecko, one per day for DeFi Llama); days is
\* one day or MaxApiDays days.
GetHistoricalPrices ==
    /\ pc \in {"init", "called"}
    /\ i < MaxCalls
    /\ \E token_id \in {"btc", "btc_1"}, days \in {1, MaxApiDays} :
       \E plan \in [1..(IF self.api_provider = "coingecko" THEN 1 ELSE days)
                      -> Exchanges] :
          LET out == get_historical_prices(self, token_id, days, plan)
              asked == <<self.api_provider, token_id, days>>
          IN  /\ self' = out.api
              /\ results' = [returned |-> TRUE,
                             fn |-> "get_historical_prices",
                             token_id |-> token_id,
                             days |-> days,
                             raised |-> out.raised,
                             value |-> out.value,
                             requests |-> out.requests]
              /\ historical_data' =
                    IF out.raised \/ asked \in DOMAIN historical_data
                    THEN historical_data
                    ELSE [k \in DOMAIN historical_data \cup {asked} |->
                             IF k = asked THEN out.value ELSE historical_data[k]]
    /\ pc' = "called"
    /\ i' = i + 1
    /\ UNCHANGED <<initial_capital, df, position>>

\* A call of _make_request_with_retry on its own.
MakeRequestWithRetry ==
    /\ pc = "init"
    /\ \E max_retries \in 0..DefaultMaxRetries,
          responses \in [1..DefaultMaxRetries -> Responses] :
          results' = [returned |-> TRUE,
                      fn |-> "_make_request_with_retry",
                      max_retries |-> max_retries,
                      responses |-> responses,
                      value |-> make_request_with_retry(responses, max_retries, 0)]
    /\ pc' = "done"
    /\ UNCHANGED <<self, historical_data, initial_capital, df, position, i>>

NextAPI == GetHistoricalPrices \/ MakeRequestWithRetry

SpecAPI == InitAPI /\ [][NextAPI]_vars

(***************************************************************************)
(* Claims about MeanReversionStrategy.backtest_strategy                    *)
(***************************************************************************)
\* Rows the loop has already simulated are rows lookback_period .. i-1.
Simulated(day) == pc # "init" /\ self.lookback_period <= day /\ day < i

\* C1: the backtest is a two-state machine over the days i >= lookback_period.
\* A step of the loop moves FLAT->LONG exactly when day i-1 was FLAT and the
\* buy signal of day i holds (holdings = capital[i-1]/price[i], capital = 0),
\* LONG->FLAT exactly when day i-1 was LONG and the sell signal of day i holds
\* (capital = holdings[i-1]*price[i], holdings = 0), and on every other day
\* position, capital and holdings are those of day i-1.
C1_TwoStateMachine ==
    [][(pc = "loop" /\ i' = i + 1) =>
        LET row == iloc(df, i)
            prev == iloc(df, i - 1)
            new == iloc(df', i)
        IN  /\ new.position \in {0, 1}
            /\ (prev.position = 0 /\ new.position = 1)
                   <=> (prev.position = 0 /\ row.buy_signal)
            /\ (prev.position = 1 /\ new.position = 0)
                   <=> (prev.position = 1 /\ row.sell_signal)
            /\ (prev.position = 0 /\ new.position = 1)
                   => /\ new.holdings = FDiv(prev.capital, row.price)
                      /\ new.capital = F(0)
            /\ (prev.position = 1 /\ new.position = 0)
                   => /\ new.capital = FMul(prev.holdings, row.price)
                      /\ new.holdings = F(0)
            /\ new.position = prev.position
                   => /\ new.capital = prev.capital
                      /\ new.holdings = prev.holdings
            /\ position' = new.position
            /\ \A j \in 1..Len(df) : j # i + 1 => df'[j] = df[j]]_vars

\* C1 witness: the loop has bought, held for a day, and sold again.
C1_Witness ==
    /\ pc = "loop"
    /\ \E day \in 1..(Len(df) - 3) :
          /\ Simulated(day) /\ Simulated(day + 2)
          /\ iloc(df, day - 1).position = 0
          /\ iloc(df, day).position = 1
          /\ iloc(df, day + 1).position = 1
          /\ iloc(df, day + 2).position = 0

\* C2: with initial_capital > 0 and prices > 0, after every simulated day the
\* position is LONG iff capital = 0 and holdings > 0, and FLAT iff holdings = 0
\* and capital > 0; exactly one of capital > 0 and holdings > 0 holds.
C2_AllInAllOut ==
    pc # "init" =>
        \A j \in 1..Len(df) :
            /\ df[j].position = 1 <=> (df[j].capital = F(0) /\ FGt(df[j].holdings, F(0)))
            /\ df[j].position = 0 <=> (df[j].holdings = F(0) /\ FGt(df[j].capital, F(0)))
            /\ FGt(df[j].capital, F(0)) # FGt(df[j].holdings, F(0))

\* C2 witness: a day simulated LONG and a later day simulated FLAT again.
C2_Witness ==
    /\ pc = "done"
    /\ \E a, b \in 1..Len(df) :
          /\ a < b
          /\ df[a].position = 1 /\ FGt(df[a].holdings, F(0))
          /\ df[b].position = 0 /\ FGt(df[b].capital, F(0))

\* No buy and no sell signal on any day the loop evaluates.
NeverTriggers ==
    \A day \in self.lookback_period..(Len(df) - 1) :
        ~iloc(df, day).buy_signal /\ ~iloc(df, day).sell_signal

\* C4: when neither signal ever triggers, the backtest returns num_trades = 0
\* and ending_capital = initial_capital, whatever the prices do.
C4_NoTriggerNoDrift ==
    (pc = "done" /\ NeverTriggers) =>
        /\ results.num_trades = 0
        /\ results.ending_capital = initial_capital

\* C4 witness: a finished run without signals over prices that rise and fall.
C4_Witness ==
    /\ pc = "done"
    /\ NeverTriggers
    /\ results.num_trades = 0
    /\ \E a, b \in 2..Len(df) :
          /\ FLt(df[a - 1].price, df[a].price)
          /\ FGt(df[b - 1].price, df[b].price)

\* The run made exactly one BUY (on row b) and then exactly one SELL (on row s).
OneRoundTrip(b, s) ==
    /\ b < s
    /\ \A j \in 1..Len(df) : df[j].position = (IF b <= j /\ j < s THEN 1 ELSE 0)

\* |x - c| <= c * (2u + u^2) with u = 2^-Precision: x is c after two roundings.
WithinTwoRoundings(x, c) ==
    LET lo == IF x.e < c.e THEN x.e ELSE c.e
        xs == x.m * Pow2(x.e - lo)
        cs == c.m * Pow2(c.e - lo)
    IN  Abs(xs - cs) * Pow2(2 * Precision) <= cs * (Pow2(Precision + 1) + 1)

ValueAt(d, day, at) ==
    FAdd(iloc(d, day).capital, FMul(iloc(d, day).holdings, iloc(d, at).price))

\* C3: a position change of the crossover backtest converts the whole
\* portfolio: for every simulated day i after the start index
\* capital[i] + holdings[i]*price[i] is capital[i-1] + holdings[i-1]*price[i]
\* (up to the roundings of the conversion), and no sequence of position
\* changes makes the portfolio value 0.
C3_CrossoverConserves ==
    pc # "init" =>
        \A day \in (start_idx(self) + 1)..(i - 1) :
            /\ FGt(iloc(df, day).portfolio_value, F(0))
            /\ WithinTwoRoundings(ValueAt(df, day, day), ValueAt(df, day - 1, day))

(***************************************************************************)
(* Claims about the indicator functions                                    *)
(***************************************************************************)
\* x and y are finite and differ by at most 2^(2 - Precision) of the larger
\* one: a few units in the last place, far less than the factor
\* sqrt(N / (N - 1)) between the sample and the population deviation.
Close(x, y) ==
    /\ IsFin(x)
    /\ IsFin(y)
    /\ FLe(FAbs(FSub(x, y)),
           FMul(Round(1, 2 - Precision), FMax(FAbs(x), FAbs(y))))

\* C6: for every day i >= window - 1 the z-score and the Bollinger bands of
\* calculate_metrics equal calculate_z_score and calculate_bollinger_bands
\* applied to prices[0..i] with the same window and num_std = 2 (both use
\* the population standard deviation).
C6_MetricsUsePopulationStd ==
    pc # "init" =>
        \A day \in (self.lookback_period - 1)..(Len(df) - 1) :
            LET prefix == SubSeq(historical_data, 1, day + 1)
                bands == calculate_bollinger_bands(prefix, self.lookback_period,
                                                   F(BandStd))
            IN  /\ Close(iloc(df, day).z_score,
                         calculate_z_score(prefix, self.lookback_period))
                /\ Close(iloc(df, day).upper_band, bands.upper_band)
                /\ Close(iloc(df, day).lower_band, bands.lower_band)

\* The call was made with a positive window on a list whose last `window`
\* prices are all equal.
ConstantWindowCall ==
    /\ pc = "done"
    /\ results.window >= 1
    /\ Len(historical_data) >= results.window
    /\ \A j \in 1..Len(historical_data) :
          j > Len(historical_data) - results.window
              => historical_data[j] = historical_data[Len(historical_data)]

\* C7: when the last `window` prices are all equal, calculate_z_score
\* returns exactly 0 and calculate_bollinger_bands returns percent_b exactly
\* 0.5.
C7_ConstantWindowFallback ==
    ConstantWindowCall =>
        /\ results.fn = "calculate_z_score" => results.value = F(0)
        /\ results.fn = "calculate_bollinger_bands"
              => results.value.ok /\ results.value.percent_b = Round(1, -1)

\* The last `window` deltas of the price list of the call.
LastDeltas == LastWindow(np_diff(historical_data), results.window)

\* Mean of the gains (sign = 1) or of the losses (sign = -1) of LastDeltas.
AvgMove(sign) ==
    np_mean([j \in 1..Len(LastDeltas) |->
                IF sign = 1
                THEN (IF FGt(LastDeltas[j], F(0)) THEN LastDeltas[j] ELSE F(0))
                ELSE (IF FLt(LastDeltas[j], F(0)) THEN FNeg(LastDeltas[j])
                      ELSE F(0))])

\* calculate_rsi was called with a positive window on at least window + 1
\* prices.
RsiCall ==
    /\ pc = "done"
    /\ results.fn = "calculate_rsi"
    /\ results.window >= 1
    /\ Len(historical_data) >= results.window + 1

\* C8: on at least window + 1 prices calculate_rsi returns exactly 100 when
\* the last `window` deltas contain no loss, exactly 0 when all of them are
\* losses, and 100 - 100 / (1 + avg_gain / avg_loss) otherwise; the result is
\* always within [0, 100].
C8_RsiCases ==
    RsiCall =>
        LET no_loss == \A j \in 1..Len(LastDeltas) : ~FLt(LastDeltas[j], F(0))
            all_loss == \A j \in 1..Len(LastDeltas) : FLt(LastDeltas[j], F(0))
        IN  /\ ~Raised(results.value)
            /\ no_loss => results.value = F(100)
            /\ all_loss => results.value = F(0)
            /\ (~no_loss /\ ~all_loss)
                  => results.value =
                        FSub(F(100),
                             FDiv(F(100),
                                  FAdd(F(1), FDiv(AvgMove(1), AvgMove(-1)))))
            /\ FGe(results.value, F(0))
            /\ FLe(results.value, F(100))

\* C8 witness: a window of two or more deltas with both a gain and a loss,
\* and an RSI strictly between the two extremes.
C8_Witness ==
    /\ RsiCall
    /\ results.window >= 2
    /\ \E j \in 1..Len(LastDeltas) : FGt(LastDeltas[j], F(0))
    /\ \E j \in 1..Len(LastDeltas) : FLt(LastDeltas[j], F(0))
    /\ FGt(results.value, F(0))
    /\ FLt(results.value, F(100))

\* C9: whenever calculate_bollinger_bands returns a result, whatever the
\* prices, window and num_std, upper_band >= middle_band >= lower_band.
C9_BandsOrdered ==
    (pc = "done" /\ results.fn = "calculate_bollinger_bands" /\ results.value.ok)
        => /\ FGe(results.value.upper_band, results.value.middle_band)
           /\ FGe(results.value.middle_band, results.value.lower_band)

\* C10: calculate_average_true_range raises on fewer than window + 1
\* candles, and a returned value is the mean of exactly `window` true
\* ranges.
C10_ATRNeedsWindowPlusOne ==
    (pc = "done" /\ results.fn = "calculate_average_true_range")
        => /\ Len(historical_data) < results.window + 1 => Raised(results.value)
           /\ ~Raised(results.value)
                 => /\ Len(LastWindow(true_ranges(historical_data),
                                      results.window)) = results.window
                    /\ results.value =
                          np_mean(LastWindow(true_ranges(historical_data),
                                             results.window))

\* The call returned a value instead of raising.
ReturnedValue ==
    IF results.fn = "calculate_bollinger_bands"
    THEN results.value.ok
    ELSE ~Raised(results.value)

\* C11: calculate_z_score, calculate_rsi and calculate_bollinger_bands raise
\* for window <= 0, and calculate_bollinger_bands raises for num_std <= 0;
\* none of them returns an indicator value for such parameters.
C11_RejectsInvalidParameters ==
    (pc = "done" /\ results.fn \in {"calculate_z_score", "calculate_rsi",
                                    "calculate_bollinger_bands"})
        => /\ results.window <= 0 => ~ReturnedValue
           /\ (results.fn = "calculate_bollinger_bands"
                  /\ FLe(results.num_std, F(0))) => ~ReturnedValue

(***************************************************************************)
(* Claims about MeanReversionService.get_all_metrics                       *)
(***************************************************************************)
Max3(a, b, c) == Max(Max(a, b), c)

\* C12: get_all_metrics either returns all three indicators or raises and
\* returns nothing: it raises whenever there are fewer prices than
\* max(z_window, rsi_window, bb_window), and a returned result carries the
\* value each of the three indicator functions computed (none of them
\* having raised).
C12_AllOrNothing ==
    pc = "done" =>
        /\ Len(historical_data) <
              Max3(results.z_window, results.rsi_window, results.bb_window)
              => ~results.value.ok
        /\ results.value.ok =>
              LET bb == calculate_bollinger_bands(historical_data,
                                                  results.bb_window,
                                                  results.bb_std)
              IN  /\ results.fetched
                  /\ ~Raised(results.value.metrics.z_score.value)
                  /\ results.value.metrics.z_score.value =
                        calculate_z_score(historical_data, results.z_window)
                  /\ ~Raised(results.value.metrics.rsi.value)
                  /\ results.value.metrics.rsi.value =
                        calculate_rsi(historical_data, results.rsi_window)
                  /\ bb.ok
                  /\ results.value.metrics.bollinger_bands.upper_band = bb.upper_band
                  /\ results.value.metrics.bollinger_bands.lower_band = bb.lower_band
                  /\ results.value.metrics.bollinger_bands.percent_b = bb.percent_b

\* C12 witness: a call with windows of two or more that returned all three
\* indicators.
C12_Witness ==
    /\ pc = "done"
    /\ results.value.ok
    /\ results.z_window >= 2
    /\ results.rsi_window >= 2
    /\ results.bb_window >= 2
    /\ IsFin(results.value.metrics.rsi.value)

(***************************************************************************)
(* Claims about MACrossoverStrategy.calculate_signals                      *)
(***************************************************************************)
\* historical_data with every day from `day` (0-based) on replaced by x.
SameUntil(day, x) ==
    [j \in 1..Len(historical_data) |->
        IF j > day THEN F(x) ELSE historical_data[j]]

\* C13: signal[t] is +1 if fast_ma(t) > slow_ma(t), -1 if it is below and 0
\* otherwise; position[0] = 0 and position[t] = signal[t-1]; and a series
\* that agrees with this one on days 0..t-1 has the same position on day t,
\* whatever its prices from day t on.
C13_PositionLagsSignal ==
    pc # "init" =>
        \A t \in 0..(Len(df) - 1) :
            /\ iloc(df, t).signal =
                  (IF FGt(iloc(df, t).fast_ma, iloc(df, t).slow_ma) THEN 1
                   ELSE IF FLt(iloc(df, t).fast_ma, iloc(df, t).slow_ma) THEN -1
                   ELSE 0)
            /\ iloc(df, t).position = (IF t = 0 THEN 0 ELSE iloc(df, t - 1).signal)
            \* compared on the dataframe as calculate_signals returned it
            /\ i = start_idx(self) + 1
                  => \A x \in CrossLevels :
                        iloc(calculate_signals(SameUntil(t, x), self), t).position
                            = iloc(df, t).position

\* C13 witness: the position of a day differs from the signal of that day,
\* and both are non-zero.
C13_Witness ==
    /\ pc # "init"
    /\ \E t \in 1..(Len(df) - 1) :
          /\ iloc(df, t).position = 1
          /\ iloc(df, t).signal = -1

\* C15: on a series of at least max(fast_period, slow_period) + 1 days whose
\* crossover position never changes from one day to the next, backtest
\* returns num_trades == 0 and ending_capital == initial_capital.
C15_NoChangeNoTrades ==
    (/\ pc = "done"
     /\ Len(df) >= start_idx(self) + 1
     /\ \A j \in 2..Len(df) : df[j].position = df[j - 1].position)
        => /\ results.num_trades = 0
           /\ results.ending_capital = initial_capital

(***************************************************************************)
(* Claims about the results of MeanReversionStrategy.backtest_strategy     *)
(***************************************************************************)
\* The state FLAT (0) / LONG (1) of the machine of C1 after day `day`,
\* replayed from the signal columns alone.
RECURSIVE MachineStateAfter(_)
MachineStateAfter(day) ==
    IF day < self.lookback_period THEN 0
    ELSE LET before == MachineStateAfter(day - 1)
         IN  IF before = 0 /\ iloc(df, day).buy_signal THEN 1
             ELSE IF before = 1 /\ iloc(df, day).sell_signal THEN 0
             ELSE before

\* Days on which the machine moved FLAT -> LONG or LONG -> FLAT.
TransitionDays ==
    {day \in self.lookback_period..(Len(df) - 1) :
        MachineStateAfter(day) # MachineStateAfter(day - 1)}

\* C16: num_trades equals the number of position changes executed during
\* the run: FLAT -> LONG transitions plus LONG -> FLAT transitions.
C16_NumTradesCountsTransitions ==
    pc = "done" => results.num_trades = Cardinality(TransitionDays)

\* C16 witness: a run that entered, left and entered again.
C16_Witness ==
    /\ pc = "done"
    /\ results.num_trades = 3
    /\ position = 1

\* C17: on every simulated day portfolio_value = capital + holdings * price;
\* ending_capital is that value on the last day, and total_return is
\* (ending_capital / portfolio_value[lookback_period] - 1) * 100.
C17_PortfolioValuation ==
    /\ \A day \in 0..(Len(df) - 1) :
          Simulated(day)
              => iloc(df, day).portfolio_value =
                    FAdd(iloc(df, day).capital,
                         FMul(iloc(df, day).holdings, iloc(df, day).price))
    /\ pc = "done"
          => /\ results.ending_capital =
                    FAdd(iloc(df, -1).capital,
                         FMul(iloc(df, -1).holdings, iloc(df, -1).price))
             /\ results.total_return =
                    FMul(FSub(FDiv(results.ending_capital,
                                   iloc(df, self.lookback_period).portfolio_value),
                              F(1)),
                         F(100))

\* C17 witness: the run ends LONG, with the open holdings valued at a last
\* price that differs from the entry price.
C17_Witness ==
    /\ pc = "done"
    /\ position = 1
    /\ FGt(iloc(df, -1).holdings, F(0))
    /\ ~IsZero(results.total_return)
    /\ results.ending_capital # initial_capital

\* C18: the first lookback_period days are left untouched by the
\* simulation: position FLAT, capital = initial_capital, holdings = 0 and
\* portfolio_value = initial_capital, whatever their prices and signals.
C18_WarmupUntouched ==
    pc # "init" =>
        \A day \in 0..(self.lookback_period - 1) :
            /\ iloc(df, day).position = 0
            /\ iloc(df, day).capital = initial_capital
            /\ iloc(df, day).holdings = F(0)
            /\ iloc(df, day).portfolio_value = initial_capital

\* C18 witness: a finished run with trades in which a warm-up day had a buy
\* signal.
C18_Witness ==
    /\ pc = "done"
    /\ results.num_trades >= 1
    /\ \E day \in 0..(self.lookback_period - 1) : iloc(df, day).buy_signal

(***************************************************************************)
(* Claims about interpret_z_score, interpret_rsi and interpret_bb          *)
(***************************************************************************)
DownwardLabels ==
    {"POTENTIAL DOWNWARD REVERSION (Overvalued)",
     "POTENTIAL DOWNWARD REVERSION (Overbought)",
     "POTENTIAL DOWNWARD REVERSION (Above Upper Band)"}

UpwardLabels ==
    {"POTENTIAL UPWARD REVERSION (Undervalued)",
     "POTENTIAL UPWARD REVERSION (Oversold)",
     "POTENTIAL UPWARD REVERSION (Below Lower Band)"}

NeutralLabels == {"NEUTRAL", "NEUTRAL (Within Bands)"}

\* The threshold above which (side = 1) or below which (side = -1) the
\* indicator of the call is not neutral.
Threshold(side) ==
    IF results.fn = "interpret_z_score" THEN Canon(2 * side, 0)
    ELSE IF results.fn = "interpret_rsi" THEN Canon(50 + 20 * side, 0)
    ELSE Canon((1 + side), -1)

\* C20: each reading is DOWNWARD iff it is strictly above the upper
\* threshold (2.0, 70, 1.0), UPWARD iff strictly below the lower one (-2.0,
\* 30, 0.0) and NEUTRAL otherwise, the thresholds themselves included.
C20_StrictThresholds ==
    pc = "done" =>
        /\ results.value \in DownwardLabels <=> FGt(results.arg, Threshold(1))
        /\ results.value \in UpwardLabels <=> FLt(results.arg, Threshold(-1))
        /\ results.value \in NeutralLabels
              <=> ~FGt(results.arg, Threshold(1)) /\ ~FLt(results.arg, Threshold(-1))

\* C20 witness: an RSI of exactly 70 is read as neutral.
C20_Witness ==
    /\ pc = "done"
    /\ results.fn = "interpret_rsi"
    /\ results.arg = Canon(70, 0)
    /\ results.value = "NEUTRAL"

(***************************************************************************)
(* Claims about the flat series that ends in a drop                        *)
(***************************************************************************)
\* The prices are [100] * n + [50].
FlatThenDrop == historical_data[Len(historical_data)] = F(50)

\* C19: on nineteen prices of 100 followed by one price of 50 (and on every
\* shorter flat run that ends in 50), with window 10 and threshold 2.0, the
\* z-score of the last day is below -2, the buy condition holds on the last
\* day and the backtest moves FLAT -> LONG on it, not before.
C19_DropTriggersBuy ==
    (pc = "done" /\ FlatThenDrop)
        => /\ FLt(calculate_z_score(historical_data, self.lookback_period), F(-2))
           /\ FLt(iloc(df, -1).z_score, F(-2))
           /\ iloc(df, -1).buy_signal
           /\ \A day \in 0..(Len(df) - 2) : iloc(df, day).position = 0
           /\ iloc(df, -1).position = 1
           /\ position = 1

\* C19 witness: the 20-point series has been run and ended LONG with one
\* trade.
C19_Witness ==
    /\ pc = "done"
    /\ Len(historical_data) = 20
    /\ FlatThenDrop
    /\ results.num_trades = 1
    /\ FGt(iloc(df, -1).holdings, F(0))

(***************************************************************************)
(* Claims about the crossover signal on increasing prices                  *)
(***************************************************************************)
\* The integer a price stands for (the prices tried are whole numbers).
PriceInt(x) == x.m * Pow2(x.e)

RECURSIVE WindowSum(_, _)
\* The exact sum of the `window` prices that end on `day` (0-based).
WindowSum(day, window) ==
    IF window = 0 THEN 0
    ELSE PriceInt(iloc(historical_data, day)) + WindowSum(day - 1, window - 1)

\* The exact window average rounded once.
RoundedAverage(day, window) ==
    FDiv(Canon(WindowSum(day, window), 0), Canon(window, 0))

\* Both moving averages of `day` are the correctly rounded averages.
AccurateAverages(day) ==
    /\ iloc(df, day).fast_ma = RoundedAverage(day, self.fast_period)
    /\ iloc(df, day).slow_ma = RoundedAverage(day, self.slow_period)

Flagged(labels) ==
    Cardinality({k \in DOMAIN results.signals : results.signals[k] \in labels})

UpwardOutcomes == {"POTENTIAL UPWARD REVERSION", "BULLISH"}

DownwardOutcomes == {"POTENTIAL DOWNWARD REVERSION", "BEARISH"}

\* C21: the overall signal is upward iff more of the three interpretations
\* are flagged UPWARD than DOWNWARD, downward iff more are flagged DOWNWARD
\* than UPWARD, and NEUTRAL on every tie, no flag at all included.
C21_MajorityVote ==
    pc = "done" =>
        /\ results.value \in UpwardOutcomes
              <=> Flagged(UpwardLabels) > Flagged(DownwardLabels)
        /\ results.value \in DownwardOutcomes
              <=> Flagged(DownwardLabels) > Flagged(UpwardLabels)
        /\ results.value = "NEUTRAL"
              <=> Flagged(UpwardLabels) = Flagged(DownwardLabels)

\* C21 witness: one interpretation flagged each way and one neutral, a tie
\* with flags, reported as NEUTRAL.
C21_Witness ==
    /\ pc = "done"
    /\ results.fn = "mean_reversion_analyzer"
    /\ Flagged(UpwardLabels) = 1
    /\ Flagged(DownwardLabels) = 1
    /\ results.value = "NEUTRAL"

(***************************************************************************)
(* Claims about the risk multiplier                                        *)
(***************************************************************************)
\* The call was made with a risk score supplied by the caller.
SuppliedCall == pc = "done" /\ results.fn \in {"get_risk_multiplier", "apply_risk_multiplier"}
                            /\ results.arg # None

\* C22: for a supplied risk_score the multiplier is 2.0 iff the score is at
\* least 5, 1.5 iff it is at least 2 and below 5, 1.0 iff it is below 2,
\* with the explanation of that band; apply_risk_multiplier returns
\* signal_value times that multiplier and the unchanged original value.
C22_MultiplierBands ==
    SuppliedCall =>
        LET out == results.value
            risk_score == results.arg
        IN  /\ out.multiplier = F(2) <=> FGe(risk_score, F(5))
            /\ out.multiplier = Canon(3, -1)
                  <=> FGe(risk_score, F(2)) /\ FLt(risk_score, F(5))
            /\ out.multiplier = F(1) <=> FLt(risk_score, F(2))
            /\ out.explanation =
                  (IF FGe(risk_score, F(5))
                   THEN "High whale activity/dominance detected - doubling signal strength"
                   ELSE IF FGe(risk_score, F(2))
                   THEN "Moderate whale activity/dominance detected - increasing signal strength by 50%"
                   ELSE "Normal whale activity/dominance - maintaining original signal strength")
            /\ results.fn = "apply_risk_multiplier" =>
                  /\ out.original_value = results.signal_value
                  /\ out.adjusted_value = FMul(results.signal_value, out.multiplier)

\* C22 witness: a supplied score of exactly 2 applied to a non-zero signal
\* gives one and a half times the signal.
C22_Witness ==
    /\ SuppliedCall
    /\ results.fn = "apply_risk_multiplier"
    /\ results.arg = F(2)
    /\ results.signal_value = F(4)
    /\ results.value.adjusted_value = F(6)

\* The three risk levels and the multiplier of the band each one names.
LevelMultiplier(level) ==
    IF level = "HIGH RISK ALERT" THEN F(2)
    ELSE IF level = "MODERATE RISK" THEN Canon(3, -1)
    ELSE F(1)

\* C30: the risk level reported next to a multiplier names the band of that
\* multiplier (HIGH RISK for 2.0, MODERATE RISK for 1.5, LOW RISK for 1.0),
\* for a supplied risk score and for a generated one alike.
C30_LevelNamesMultiplierBand ==
    (pc = "done" /\ results.fn # "calculate_mean_reversion_score") =>
        /\ results.value.risk_level \in {"HIGH RISK ALERT", "MODERATE RISK", "LOW RISK"}
        /\ results.value.multiplier = LevelMultiplier(results.value.risk_level)

(***************************************************************************)
(* Claims about the composite mean-reversion score                         *)
(***************************************************************************)
ScoreCall ==
    pc = "done" /\ results.fn \in {"calculate_mean_reversion_score",
                                   "integrated_crypto_analysis"}

\* The composite score the call computed.
Score ==
    IF results.fn = "calculate_mean_reversion_score" THEN results.value
    ELSE results.mr_score

\* The composite score of the same function for another %B.
ScoreAt(percent_b) ==
    IF results.fn = "calculate_mean_reversion_score"
    THEN calculate_mean_reversion_score(results.z_score, results.rsi, percent_b)
    ELSE mr_score_of(results.z_score, results.rsi, percent_b)

InScoreRange(x) == FGe(x, F(-10)) /\ FLe(x, F(10))

C24_MonotoneInPercentB ==
    (ScoreCall /\ ~IsNaN(results.z_score) /\ ~IsNaN(results.percent_b)) =>
        \A percent_b2 \in ScorePercentB :
            FLe(results.percent_b, percent_b2) => FGe(Score, ScoreAt(percent_b2))

(***************************************************************************)
(* Claims about the order of the trades of backtest_strategy               *)
(***************************************************************************)
\* Day `day` executed a BUY (the position column went 0 -> 1) or a SELL
\* (1 -> 0).
Bought(day) == iloc(df, day - 1).position = 0 /\ iloc(df, day).position = 1

Sold(day) == iloc(df, day - 1).position = 1 /\ iloc(df, day).position = 0

\* Trades of either kind executed up to and including `day`.
BuysUntil(day) ==
    Cardinality({d \in self.lookback_period..day : Bought(d)})

SellsUntil(day) ==
    Cardinality({d \in self.lookback_period..day : Sold(d)})

\* C26: the trades alternate and start with a BUY.  On every simulated day
\* the position is 0 or 1; a day that leaves the position where it was has
\* traded nothing (no BUY while LONG, no SELL while FLAT: capital and
\* holdings are carried over); a day on which both signals hold trades
\* once; and after every day BUYs minus SELLs is 0 when FLAT, 1 when LONG.
C26_TradesAlternate ==
    \A day \in 0..(Len(df) - 1) :
        Simulated(day) =>
            LET row == iloc(df, day)
                prev == iloc(df, day - 1)
            IN  /\ row.position \in {0, 1}
                /\ prev.position \in {0, 1}
                /\ row.position = prev.position
                      => row.capital = prev.capital /\ row.holdings = prev.holdings
                /\ (row.buy_signal /\ row.sell_signal)
                      => /\ row.position # prev.position
                         /\ Bought(day) => row.holdings = FDiv(prev.capital, row.price)
                                           /\ row.capital = F(0)
                         /\ Sold(day) => row.capital = FMul(prev.holdings, row.price)
                                         /\ row.holdings = F(0)
                /\ BuysUntil(day) - SellsUntil(day) = row.position
                /\ day = i - 1 => position = row.position

\* C26 witness: a FLAT day on which both the buy and the sell signal hold;
\* the day bought and did not sell.
C26_Witness ==
    /\ pc = "loop"
    /\ \E day \in 1..(Len(df) - 1) :
          /\ Simulated(day)
          /\ iloc(df, day).buy_signal
          /\ iloc(df, day).sell_signal
          /\ Bought(day)
          /\ SellsUntil(day) = 0

(***************************************************************************)
(* Claims about the Z-score vote and the %B vote                           *)
(***************************************************************************)
ZVote == results.value.metrics.z_score.interpretation

BBVote == results.value.metrics.bollinger_bands.interpretation

\* The window of the call holds one price only, repeated.
ZeroVarianceWindow ==
    \A j \in (Len(historical_data) - results.z_window + 1)..Len(historical_data) :
        historical_data[j] = historical_data[Len(historical_data)]

\* C29 as stated: over the same window with num_std = 2.0 the two readings
\* always point the same way: Z-score DOWNWARD iff %B DOWNWARD, Z-score
\* UPWARD iff %B UPWARD, and both NEUTRAL otherwise.
C29_VotesAgree ==
    (pc = "done" /\ results.value.ok) =>
        /\ ZVote \in DownwardLabels <=> BBVote \in DownwardLabels
        /\ ZVote \in UpwardLabels <=> BBVote \in UpwardLabels

\* C29, amended: the two readings never oppose each other (never one
\* UPWARD and the other DOWNWARD), and both are NEUTRAL for a
\* zero-variance window.
C29_VotesNeverOppose ==
    (pc = "done" /\ results.value.ok) =>
        /\ ~(ZVote \in DownwardLabels /\ BBVote \in UpwardLabels)
        /\ ~(ZVote \in UpwardLabels /\ BBVote \in DownwardLabels)
        /\ ZeroVarianceWindow => ZVote \in NeutralLabels /\ BBVote \in NeutralLabels

\* C29 witness: a price more than two deviations above the mean of its
\* window, flagged DOWNWARD by both readings.
C29_Witness ==
    /\ pc = "done"
    /\ results.value.ok
    /\ results.z_window = results.bb_window
    /\ ZVote \in DownwardLabels
    /\ BBVote \in DownwardLabels

(***************************************************************************)
(* Claims about TokenPriceAPI                                              *)
(***************************************************************************)
\* The step is a call of get_historical_prices.
HistoricalCall == results'.fn = "get_historical_prices" /\ i' = i + 1

\* (provider, token, days) of the call made in the step.
Asked == <<self.api_provider, results'.token_id, results'.days>>

\* C25: once get_historical_prices has succeeded for (provider, token,
\* days), every later call with the same three returns the prices and
\* dates of that first success and issues no request, whatever was called
\* in between; no call removes or replaces a cache entry.
C25_CacheServesFirstResult ==
    [][HistoricalCall =>
        /\ Asked \in DOMAIN historical_data =>
              /\ ~results'.raised
              /\ results'.value = historical_data[Asked]
              /\ results'.requests = 0
        /\ \A k \in DOMAIN self._cache :
              k \in DOMAIN self'._cache /\ self'._cache[k] = self._cache[k]]_vars

\* C25 witness: a third call answered from the cache while the cache holds
\* a second key, fetched in between.
C25_Witness ==
    /\ pc = "called"
    /\ i = 3
    /\ ~results.raised
    /\ results.requests = 0
    /\ Cardinality(DOMAIN self._cache) = 2
    /\ <<self.api_provider, results.token_id, results.days>> \in DOMAIN historical_data

\* C27: with max_retries >= 1 the call ends after at most max_retries
\* requests; every request but the first follows a 429; a 200 is returned
\* at once, any other error is raised at once, and a 429 is raised only on
\* the last allowed attempt.
C27_RetryBounded ==
    (pc = "done" /\ results.fn = "_make_request_with_retry" /\ results.max_retries >= 1) =>
        LET out == results.value
            n == out.requests
            last == results.responses[n]
        IN  /\ 1 <= n /\ n <= results.max_retries
            /\ \A k \in 1..(n - 1) : results.responses[k].status = 429
            /\ out.response = last
            /\ out.raised <=> last.status # 200
            /\ last.status = 429 => n = results.max_retries

\* C27 witness: three 429 responses with max_retries = 3: the third one is
\* raised after exactly three requests.
C27_Witness ==
    /\ pc = "done"
    /\ results.fn = "_make_request_with_retry"
    /\ results.max_retries = 3
    /\ \A k \in 1..3 : results.responses[k].status = 429
    /\ results.value.raised
    /\ results.value.requests = 3

\* C28: a call of get_historical_prices that raises leaves the cache as it
\* was, so its key is still absent; and a call whose key is absent asks the
\* provider.
C28_FailureLeavesCache ==
    [][HistoricalCall =>
        LET cache_key == _get_cache_key(self, results'.token_id, results'.days)
        IN  /\ results'.raised =>
                  /\ self' = self
                  /\ cache_key \notin DOMAIN self'._cache
            /\ cache_key \notin DOMAIN self._cache => results'.requests >= 1]_vars

\* C28 witness: a DeFi Llama call that raised after four requests, that is
\* on its second day, with the first day's price already fetched.
C28_Witness ==
    /\ pc = "called"
    /\ self.api_provider = "defillama"
    /\ results.raised
    /\ results.days = 2
    /\ results.requests = 4
    /\ _get_cache_key(self, results.token_id, results.days) \notin DOMAIN self._cache

=============================================================================
